---- MODULE Spec2Model ----
(***************************************************************************)
(* Model of the vrtl_trader scan core: market normalization, range         *)
(* parsing, family grouping, anomaly scoring and ranking.                  *)
(*                                                                         *)
(* Representation choices:                                                 *)
(*  - a text is a sequence of characters, each a one-character string;     *)
(*    the non-ASCII characters have names: "figdash" U+2012, "endash"      *)
(*    U+2013, "emdash" U+2014, "minus" U+2212, "deg" U+00B0, "tab";        *)
(*  - a range endpoint is a fixed-point integer in tenths (3.5 is 35);     *)
(*  - a price or a liquidity is a fixed-point integer in thousandths, a    *)
(*    score, spike or z-score one in millionths;                           *)
(*  - a local that a function computes once and reads several times is     *)
(*    bound with Let, so that its value is computed once here as well;     *)
(*  - a JavaScript number that may be NaN/null/undefined is a record       *)
(*    [k |-> "num" | "nan" | "null" | "undef", v |-> Int].                 *)
(***************************************************************************)
EXTENDS Integers, Sequences, FiniteSets, TLC

\* ------------------------------------------------------------------ bounds
MaxToks == 4

MaxBatch == 2

MaxFamBatch == 3

MaxMarkets == 9

OddPrefix == 4

MaxOdd == 3

\* the scans of a paper-trading history
MaxScans == 4

\* the pages one fetchMarkets call may request when no cap stops it
MaxPages == 4

\* the scan runs of a history, and the markets one run fetches
MaxRuns == 2

MaxFetched == 2

\* the write calls and the flush calls on one file logger
MaxLines == 4

MaxFlushes == 2

\* ------------------------------------------------------- generic helpers
SetMax(S) == CHOOSE x \in S : \A y \in S : y <= x

SetMin(S) == CHOOSE x \in S : \A y \in S : x <= y

Abs(x) == IF x < 0 THEN -x ELSE x

\* the sequence f with its elements computed once
Tuple(f) == f \o <<>>

\* const name = v; ... : the rest G of a function body with its local bound to v
Let(v, G(_)) == G(v)

\* the indexes of S in ascending order
RECURSIVE Ascending(_)
Ascending(S) == IF S = {} THEN <<>> ELSE <<SetMin(S)>> \o Ascending(S \ {SetMin(S)})

RECURSIVE Flatten(_)
Flatten(ss) == IF ss = <<>> THEN <<>> ELSE Head(ss) \o Flatten(Tail(ss))

\* ---------------------------------------------------------- characters
Digits == {"0", "1", "2", "3", "4", "5", "6", "7", "8", "9"}

DigitVal(c) ==
  CASE c = "0" -> 0 [] c = "1" -> 1 [] c = "2" -> 2 [] c = "3" -> 3 [] c = "4" -> 4
    [] c = "5" -> 5 [] c = "6" -> 6 [] c = "7" -> 7 [] c = "8" -> 8 [] c = "9" -> 9

DigitChar(d) == <<"0", "1", "2", "3", "4", "5", "6", "7", "8", "9">>[d + 1]

LowerLetters ==
  <<"a", "b", "c", "d", "e", "f", "g", "h", "i", "j", "k", "l", "m",
    "n", "o", "p", "q", "r", "s", "t", "u", "v", "w", "x", "y", "z">>

UpperLetters ==
  <<"A", "B", "C", "D", "E", "F", "G", "H", "I", "J", "K", "L", "M",
    "N", "O", "P", "Q", "R", "S", "T", "U", "V", "W", "X", "Y", "Z">>

\* String.prototype.toLowerCase on one character
Lower(c) ==
  IF \E i \in 1..26 : UpperLetters[i] = c
  THEN LowerLetters[CHOOSE i \in 1..26 : UpperLetters[i] = c]
  ELSE c

LowerText(s) == [i \in 1..Len(s) |-> Lower(s[i])]

\* the regex class \s
WS == {" ", "tab"}

\* the regex class \w
IsWord(c) ==
  \/ c \in Digits
  \/ c = "_"
  \/ \E i \in 1..26 : LowerLetters[i] = c \/ UpperLetters[i] = c

\* the dash variants [‒–—−]
DashVariants == {"figdash", "endash", "emdash", "minus"}

\* the character at position i, "" past either end
At(s, i) == IF i >= 1 /\ i <= Len(s) THEN s[i] ELSE ""

\* the first position >= i whose character is not in S (Len+1 at the end)
RECURSIVE RunEnd(_, _, _)
RunEnd(s, i, S) == IF At(s, i) \in S THEN RunEnd(s, i + 1, S) ELSE i

\* the first position >= i whose character is of class \S no more
RECURSIVE NonSpaceEnd(_, _)
NonSpaceEnd(s, i) ==
  IF i <= Len(s) /\ s[i] \notin WS THEN NonSpaceEnd(s, i + 1) ELSE i

Sub(s, i, e) == IF e <= i THEN <<>> ELSE SubSeq(s, i, e - 1)

\* whether the lower-cased text has word w at position i
HasAt(s, i, w) == \A j \in 1..Len(w) : Lower(At(s, i + j - 1)) = w[j]

\* String.prototype.includes
Includes(s, w) == \E i \in 1..Len(s) : HasAt(s, i, w)

\* String.prototype.trim
RECURSIVE TrimLeft(_)
TrimLeft(s) == IF s # <<>> /\ Head(s) \in WS THEN TrimLeft(Tail(s)) ELSE s

RECURSIVE TrimRight(_)
TrimRight(s) ==
  IF s # <<>> /\ s[Len(s)] \in WS THEN TrimRight(SubSeq(s, 1, Len(s) - 1)) ELSE s

Trim(s) == TrimRight(TrimLeft(s))

\* .replace(/\s+/g, " ")
RECURSIVE CollapseWs(_)
CollapseWs(s) ==
  IF s = <<>> THEN <<>>
  ELSE IF Head(s) \in WS
       THEN <<" ">> \o CollapseWs(Sub(s, RunEnd(s, 1, WS), Len(s) + 1))
       ELSE <<Head(s)>> \o CollapseWs(Tail(s))

\* .replace(/[‒–—−]/g, "-")
\* the replacement left out: dash variants kept as they are
DashToHyphen_none(s) == s

DashToHyphen(s) == [i \in 1..Len(s) |-> IF s[i] \in DashVariants THEN "-" ELSE s[i]]

normalize(s) == Trim(CollapseWs(DashToHyphen(s)))

\* ------------------------------------------------------- range parser
\* A numeric value of the parser, in tenths.
Tenths(n) == n * 10

\* the suffix (?:%|°c|°f|c|f)? at position p: the length it consumes
UnitLen(s, p) ==
  IF At(s, p) = "%" THEN 1
  ELSE IF At(s, p) = "deg" /\ Lower(At(s, p + 1)) \in {"c", "f"} THEN 2
  ELSE IF Lower(At(s, p)) \in {"c", "f"} THEN 1
  ELSE 0

\* the ends the suffix (?:[km])?(?:%|°c|°f|c|f)? can reach from position q
SuffixEnds(s, q) ==
  LET km == IF Lower(At(s, q)) \in {"k", "m"} THEN 1 ELSE 0
  IN {q + km + UnitLen(s, q + km), q + km, q}

\* the first digit of a token \$?[-]?\d... starting at i, 0 when none starts there
TokStart(s, i) ==
  LET j1 == IF At(s, i) = "$" THEN i + 1 ELSE i
      j2 == IF At(s, j1) = "-" THEN j1 + 1 ELSE j1
  IN IF At(s, j2) \in Digits THEN j2 ELSE 0

\* every position at which the token
\*   \$?[-]?\d[\d,]*(?:\.\d+)?(?:[km])?(?:%|°c|°f|c|f)?
\* starting at i can end (the position after its last character); the regex
\* engine prefers the longer ones
TokEnds(s, i) ==
  Let(TokStart(s, i), LAMBDA j :
  Let(RunEnd(s, j + 1, Digits \cup {","}), LAMBDA r :
  Let(RunEnd(s, r + 1, Digits), LAMBDA d :
    IF j = 0 THEN {}
    ELSE ((j + 1)..(r - 1))
         \cup (IF At(s, r) = "." /\ At(s, r + 1) \in Digits
               THEN ((r + 2)..(d - 1)) \cup SuffixEnds(s, d) \cup {r}
               ELSE SuffixEnds(s, r)))))

\* \s*(?:-|to)\s*(?<b>token) from position e: where b starts and ends
DashRest(s, e) ==
  Let(RunEnd(s, e, WS), LAMBDA x :
  Let(IF At(s, x) = "-" THEN x + 1
      ELSE IF HasAt(s, x, <<"t", "o">>) THEN x + 2
      ELSE 0, LAMBDA y :
  Let(IF y = 0 THEN 0 ELSE RunEnd(s, y, WS), LAMBDA z :
  Let(IF z = 0 THEN {} ELSE TokEnds(s, z), LAMBDA ends :
    IF ends = {} THEN [ok |-> FALSE, bs |-> 0, be |-> 0]
    ELSE [ok |-> TRUE, bs |-> z, be |-> SetMax(ends)]))))

DashMatchAt(s, i) == {e \in TokEnds(s, i) : DashRest(s, e).ok}

NoMatch == [found |-> FALSE, ms |-> 0, me |-> 0, a |-> <<>>, b |-> <<>>]

\* the first match of the dash pattern (leftmost start, then the engine's
\* preferred end): the matched span [ms, me) and the groups a and b
dashRe(s) ==
  Let({i \in 1..Len(s) : DashMatchAt(s, i) # {}}, LAMBDA starts :
    IF starts = {} THEN NoMatch
    ELSE Let(SetMin(starts), LAMBDA i :
         Let(SetMax(DashMatchAt(s, i)), LAMBDA e :
         Let(DashRest(s, e), LAMBDA rest :
           [found |-> TRUE, ms |-> i, me |-> rest.be,
            a |-> Sub(s, i, e), b |-> Sub(s, rest.bs, rest.be)]))))

\* between\s+(?<a>\S+)\s+and\s+(?<b>\S+) anchored at i
BetweenAt(s, i) ==
  Let(RunEnd(s, i + 7, WS), LAMBDA x :
  Let(NonSpaceEnd(s, x), LAMBDA y :
  Let(RunEnd(s, y, WS), LAMBDA z :
  Let(RunEnd(s, z + 3, WS), LAMBDA w :
  Let(NonSpaceEnd(s, w), LAMBDA v :
    IF /\ HasAt(s, i, <<"b", "e", "t", "w", "e", "e", "n">>)
       /\ x > i + 7 /\ y > x /\ z > y
       /\ HasAt(s, z, <<"a", "n", "d">>)
       /\ w > z + 3 /\ v > w
    THEN [found |-> TRUE, ms |-> i, me |-> v, a |-> Sub(s, x, y), b |-> Sub(s, w, v)]
    ELSE NoMatch)))))

betweenRe(s) ==
  Let({i \in 1..Len(s) : BetweenAt(s, i).found}, LAMBDA starts :
    IF starts = {} THEN NoMatch ELSE BetweenAt(s, SetMin(starts)))

\* .replace(/^[("']+|[)"',.?]+$/g, "")
RECURSIVE StripLead(_)
StripLead(t) ==
  IF t # <<>> /\ Head(t) \in {"(", "dquote", "'"} THEN StripLead(Tail(t)) ELSE t

RECURSIVE StripTrail(_)
StripTrail(t) ==
  IF t # <<>> /\ t[Len(t)] \in {")", "dquote", "'", ",", ".", "?"}
  THEN StripTrail(SubSeq(t, 1, Len(t) - 1))
  ELSE t

stripPunct(t) == Trim(StripTrail(StripLead(t)))

\* the value of a digit string
RECURSIVE DigitsVal(_)
DigitsVal(ds) ==
  IF ds = <<>> THEN 0 ELSE DigitsVal(SubSeq(ds, 1, Len(ds) - 1)) * 10 + DigitVal(ds[Len(ds)])

\* Number() of [-]digits[.digits] in tenths (fraction digits after the first
\* are dropped: the texts drawn have at most one)
NumberTenths(t) ==
  Let(IF At(t, 1) = "-" THEN 2 ELSE 1, LAMBDA p :
  Let(RunEnd(t, p, Digits), LAMBDA e :
  Let(Tenths(DigitsVal(Sub(t, p, e)))
      + (IF At(t, e) = "." /\ At(t, e + 1) \in Digits THEN DigitVal(t[e + 1]) ELSE 0),
      LAMBDA v :
    IF p = 2 THEN -v ELSE v)))

SelectSeq2(s, S) == SelectSeq(s, LAMBDA c : c \notin S)

mergeUnit(existing, incoming) ==
  IF existing = "" THEN incoming
  ELSE IF existing = "deg" /\ incoming \in {"degc", "degf"} THEN incoming
  ELSE existing

NoValue == [ok |-> FALSE, value |-> 0, unit |-> ""]

\* whether t[p..e) is  \d{1,3}(?:,\d{3})*  or  \d+
RECURSIVE CommaGroups(_, _, _)
CommaGroups(t, p, e) ==
  IF p = e THEN TRUE
  ELSE /\ At(t, p) = ","
       /\ RunEnd(t, p + 1, Digits) >= p + 4
       /\ \A k \in 1..3 : At(t, p + k) \in Digits
       /\ ~(At(t, p + 4) \in Digits)
       /\ p + 4 <= e
       /\ CommaGroups(t, p + 4, e)

parseValueToken(raw) ==
  Let(StripTrail(StripLead(Trim(raw))), LAMBDA t0 :
  Let(IF At(t0, 1) = "$" THEN Tail(t0) ELSE t0, LAMBDA t1 :
  Let(IF At(t1, 1) = "deg" THEN Tail(t1) ELSE t1, LAMBDA t :
  Let(IF At(t, 1) = "-" THEN 2 ELSE 1, LAMBDA p :
  Let(RunEnd(t, p, Digits), LAMBDA d1 :
  Let(RunEnd(t, p, Digits \cup {","}), LAMBDA ie :
  Let(IF At(t, ie) = "." THEN RunEnd(t, ie + 1, Digits) ELSE ie, LAMBDA fe :
  Let(IF Lower(At(t, fe)) \in {"k", "m"} THEN 1 ELSE 0, LAMBDA km :
  Let(UnitLen(t, fe + km), LAMBDA ul :
    LET unit0 == IF At(t0, 1) = "$" THEN "$" ELSE IF At(t1, 1) = "deg" THEN "deg" ELSE ""
        intOk == /\ d1 > p
                 /\ \/ ie = d1
                    \/ d1 - p <= 3 /\ At(t, ie - 1) # "," /\ CommaGroups(t, d1, ie)
        fracOk == At(t, ie) # "." \/ fe > ie + 1
        mult == IF km = 0 THEN 1 ELSE IF Lower(At(t, fe)) = "k" THEN 1000 ELSE 1000000
        u == IF ul = 0 THEN ""
             ELSE IF At(t, fe + km) = "%" THEN "%"
             ELSE IF Lower(At(t, fe + km + ul - 1)) = "c" THEN "degc" ELSE "degf"
    IN IF intOk /\ fracOk /\ fe + km + ul = Len(t) + 1
       THEN [ok |-> TRUE, value |-> NumberTenths(SelectSeq2(Sub(t, 1, fe), {","})) * mult,
             unit |-> IF u = "" THEN unit0 ELSE mergeUnit(unit0, u)]
       ELSE NoValue)))))))))

chooseUnit(a, b) ==
  LET prefs == <<"degc", "degf", "deg", "$", "%">>
      hits == {i \in 1..5 : a = prefs[i] \/ b = prefs[i]}
  IN IF hits # {}
     THEN (IF prefs[SetMin(hits)] = "deg" THEN "" ELSE prefs[SetMin(hits)])
     ELSE IF a # "" THEN a ELSE b

\* Number.prototype.toString of a value in tenths
RECURSIVE NatChars(_)
NatChars(n) == IF n < 10 THEN <<DigitChar(n)>> ELSE NatChars(n \div 10) \o <<DigitChar(n % 10)>>

NumChars(v) ==
  LET a == Abs(v)
  IN (IF v < 0 THEN <<"-">> ELSE <<>>)
     \o NatChars(a \div 10)
     \o (IF a % 10 = 0 THEN <<>> ELSE <<".", DigitChar(a % 10)>>)

\* n.toString() never ends in a fractional zero, so the replace changes nothing
stripTrailingZeros(v) == NumChars(v)

UnitChars(u) ==
  CASE u = "" -> <<>> [] u = "$" -> <<"$">> [] u = "%" -> <<"%">>
    [] u = "degc" -> <<"deg", "c">> [] u = "degf" -> <<"deg", "f">>

formatNormalizedLabel(low, high, unit) ==
  stripTrailingZeros(low) \o <<"-">> \o stripTrailingZeros(high) \o UnitChars(unit)

\* /k\b/i or /m\b/i on the token
HasMag(t, ch) == \E i \in 1..Len(t) : Lower(t[i]) = ch /\ ~IsWord(At(t, i + 1))

NoRange == [ok |-> FALSE, low |-> 0, high |-> 0, unit |-> "", normalizedLabel |-> <<>>]

parseRangeTokens(aRaw, bRaw) ==
  Let(parseValueToken(aRaw), LAMBDA a :
  Let(parseValueToken(bRaw), LAMBDA b :
  Let(HasMag(stripPunct(aRaw), "k"), LAMBDA aHasK :
  Let(HasMag(stripPunct(bRaw), "k"), LAMBDA bHasK :
  Let(HasMag(stripPunct(aRaw), "m"), LAMBDA aHasM :
  Let(HasMag(stripPunct(bRaw), "m"), LAMBDA bHasM :
  Let(IF aHasK /\ ~bHasK /\ ~bHasM /\ Abs(b.value) < Tenths(1000)
      THEN b.value * 1000 ELSE b.value, LAMBDA bv1 :
  Let(IF bHasK /\ ~aHasK /\ ~aHasM /\ Abs(a.value) < Tenths(1000)
      THEN a.value * 1000 ELSE a.value, LAMBDA av1 :
  Let(IF aHasM /\ ~bHasM /\ ~bHasK /\ Abs(bv1) < Tenths(1000)
      THEN bv1 * 1000000 ELSE bv1, LAMBDA bv :
  Let(IF bHasM /\ ~aHasM /\ ~aHasK /\ Abs(av1) < Tenths(1000)
      THEN av1 * 1000000 ELSE av1, LAMBDA av :
    LET low == IF av <= bv THEN av ELSE bv
        high == IF av <= bv THEN bv ELSE av
        unit == chooseUnit(a.unit, b.unit)
    IN IF ~a.ok \/ ~b.ok THEN NoRange
       ELSE IF low = high THEN NoRange
       ELSE [ok |-> TRUE, low |-> low, high |-> high, unit |-> unit,
             normalizedLabel |-> formatNormalizedLabel(low, high, unit)]))))))))))

\* /\b(19|20)\d{2}\b/
hasYear(t) ==
  \E i \in 1..Len(t) :
    /\ ~IsWord(At(t, i - 1))
    /\ At(t, i) \in {"1", "2"}
    /\ At(t, i + 1) = (IF At(t, i) = "1" THEN "9" ELSE "0")
    /\ At(t, i + 2) \in Digits /\ At(t, i + 3) \in Digits
    /\ ~IsWord(At(t, i + 4))

\* the guard without its exemption of ranges that carry a unit
isLikelySeasonOrYearRange_anyUnit(fullText, r) ==
  LET t == LowerText(fullText)
  IN IF Includes(t, <<"s", "e", "a", "s", "o", "n">>) /\ hasYear(t) THEN TRUE
     ELSE IF r.low >= Tenths(1900) /\ r.high <= Tenths(2100) THEN TRUE
     ELSE /\ hasYear(t)
          /\ (r.low >= Tenths(1900) \/ r.high >= Tenths(1900))
          /\ (r.low < Tenths(100) \/ r.high < Tenths(100))

isLikelySeasonOrYearRange(fullText, r) ==
  LET t == LowerText(fullText)
  IN IF r.unit # "" THEN FALSE
     ELSE IF Includes(t, <<"s", "e", "a", "s", "o", "n">>) /\ hasYear(t) THEN TRUE
     ELSE IF r.low >= Tenths(1900) /\ r.high <= Tenths(2100) THEN TRUE
     ELSE /\ hasYear(t)
          /\ (r.low >= Tenths(1900) \/ r.high >= Tenths(1900))
          /\ (r.low < Tenths(100) \/ r.high < Tenths(100))

\* the range of one pattern's match: accepted, or none
TryMatch(cleaned, m) ==
  Let(IF m.found THEN parseRangeTokens(m.a, m.b) ELSE NoRange, LAMBDA r :
    IF r.ok /\ ~isLikelySeasonOrYearRange(cleaned, r) THEN r ELSE NoRange)

parseRangeFromText(text) ==
  Let(normalize(text), LAMBDA cleaned :
  Let(TryMatch(cleaned, betweenRe(cleaned)), LAMBDA r1 :
    IF r1.ok THEN r1 ELSE TryMatch(cleaned, dashRe(cleaned))))

isSaneSpan(r, fullText) ==
  LET span == r.high - r.low
      absHigh == IF Abs(r.high) >= Abs(r.low) THEN Abs(r.high) ELSE Abs(r.low)
  IN IF r.unit = "%" THEN span > 0 /\ span <= Tenths(100) /\ r.low >= 0 /\ r.high <= Tenths(100)
     ELSE IF r.unit \in {"degc", "degf"} THEN span > 0 /\ span <= Tenths(200) /\ absHigh <= Tenths(300)
     ELSE IF r.unit = "$" THEN span > 0 /\ span <= Tenths(50000000)
     ELSE IF isLikelySeasonOrYearRange(fullText, r) THEN FALSE
     ELSE span > 0 /\ span <= Tenths(5000000)

\* the matches of /-?\d+(?:\.\d+)?/g from position p on, as numbers in tenths
RECURSIVE NumberMatches(_, _)
NumberMatches(s, p) ==
  IF p > Len(s) THEN <<>>
  ELSE Let(IF At(s, p) = "-" /\ At(s, p + 1) \in Digits THEN p + 1
           ELSE IF At(s, p) \in Digits THEN p ELSE 0, LAMBDA st :
       Let(RunEnd(s, st, Digits), LAMBDA e :
       Let(IF At(s, e) = "." /\ At(s, e + 1) \in Digits
           THEN RunEnd(s, e + 1, Digits) ELSE e, LAMBDA fe :
         IF st = 0 THEN NumberMatches(s, p + 1)
         ELSE <<NumberTenths(Sub(s, p, fe))>> \o NumberMatches(s, fe))))

isYear(n) == n % 10 = 0 /\ n >= Tenths(1900) /\ n <= Tenths(2100)

countExtraNonYearNumbers(text, r) ==
  LET nums == NumberMatches(text, 1)
      extra == SelectSeq(nums, LAMBDA n : ~isYear(n) /\ n # r.low /\ n # r.high)
  IN Len(extra)

NoResult == [ok |-> FALSE, range |-> NoRange, confidence |-> 0, reasons |-> <<>>]

\* what extraNums extra numbers take off the confidence
extraPenalty_scaled(extraNums) == 2 * extraNums

extraPenalty(extraNums) == IF extraNums > 0 THEN 2 ELSE 0

\* reasons holds <<tag, n>> in push order: "extraNumbers(n)" is <<"extraNumbers", n>>,
\* the other tags carry 0
parseRangeWithConfidence(text) ==
  Let(normalize(text), LAMBDA cleaned :
  Let(parseRangeFromText(cleaned), LAMBDA range :
  Let(betweenRe(cleaned).found \/ dashRe(cleaned).found, LAMBDA cleanForm :
  Let(range.high - range.low > 0 /\ isSaneSpan(range, cleaned), LAMBDA sane :
  Let(countExtraNonYearNumbers(cleaned, range), LAMBDA extraNums :
    LET c1 == IF cleanForm THEN 2 ELSE 0
        c2 == IF sane THEN c1 + 1 ELSE c1
        c3 == c2 - extraPenalty(extraNums)
    IN IF ~range.ok THEN NoResult
       ELSE [ok |-> TRUE, range |-> range, confidence |-> c3,
             reasons |-> (IF cleanForm THEN << <<"cleanRangeForm", 0>> >> ELSE <<>>)
                         \o (IF sane THEN << <<"saneSpan", 0>> >> ELSE <<>>)
                         \o (IF extraNums > 0 THEN << <<"extraNumbers", extraNums>> >> ELSE <<>>)])))))

\* String.prototype.replace(re, " ") for a match m of re
ReplaceMatch(s, m) == Sub(s, 1, m.ms) \o <<" ">> \o Sub(s, m.me, Len(s) + 1)

\* the removal without the season/year guard
RemoveWith_unguarded(normalized, m) ==
  Let(parseRangeTokens(m.a, m.b), LAMBDA range :
    [base |-> Trim(CollapseWs(ReplaceMatch(normalized, m))), range |-> range])

RemoveWith(normalized, m) ==
  Let(parseRangeTokens(m.a, m.b), LAMBDA range :
    IF range.ok /\ isLikelySeasonOrYearRange(normalized, range)
    THEN [base |-> Trim(normalized), range |-> NoRange]
    ELSE [base |-> Trim(CollapseWs(ReplaceMatch(normalized, m))), range |-> range])

removeFirstRangeForGrouping(text) ==
  Let(normalize(text), LAMBDA normalized :
  Let(betweenRe(normalized), LAMBDA mb :
    IF mb.found THEN RemoveWith(normalized, mb)
    ELSE Let(dashRe(normalized), LAMBDA md :
           IF md.found THEN RemoveWith(normalized, md)
           ELSE [base |-> Trim(normalized), range |-> NoRange])))

\* ------------------------------------------------------------ JS values
\* A field of a raw record: absent, a string or a number (thousandths).
Undef == [k |-> "undef", s |-> <<>>, v |-> 0]

Str(chars) == [k |-> "str", s |-> chars, v |-> 0]

NumV(n) == [k |-> "num", s |-> <<>>, v |-> n]

\* a ?? b
Coalesce(a, b) == IF a.k = "undef" THEN b ELSE a

\* A number that may be NaN, null or absent.
Num(n) == [k |-> "num", v |-> n]

NaN == [k |-> "nan", v |-> 0]

Null == [k |-> "null", v |-> 0]

Absent == [k |-> "undef", v |-> 0]

Thousandths(n) == n * 1000

\* String(v) of an integral number held in thousandths
NumberToString(v) ==
  (IF v < 0 THEN <<"-">> ELSE <<>>) \o NatChars(Abs(v) \div 1000)

\* the fraction digits ds as thousandths (digits after the third are dropped:
\* the strings drawn have at most three)
FracThousandths(ds) ==
  (IF Len(ds) >= 1 THEN 100 * DigitVal(ds[1]) ELSE 0)
  + (IF Len(ds) >= 2 THEN 10 * DigitVal(ds[2]) ELSE 0)
  + (IF Len(ds) >= 3 THEN DigitVal(ds[3]) ELSE 0)

\* Number(s) of a string: whitespace trimmed, "" is 0, a signed decimal is its
\* value, anything else NaN
NumberOfString(s) ==
  Let(Trim(s), LAMBDA t :
  Let(IF At(t, 1) \in {"-", "+"} THEN 2 ELSE 1, LAMBDA p :
  Let(RunEnd(t, p, Digits), LAMBDA e :
  Let(IF At(t, e) = "." THEN RunEnd(t, e + 1, Digits) ELSE e, LAMBDA fe :
    LET dot == At(t, e) = "."
        nd == (e - p) + (IF dot THEN fe - e - 1 ELSE 0)
        mag == Thousandths(DigitsVal(Sub(t, p, e)))
               + (IF dot THEN FracThousandths(Sub(t, e + 1, fe)) ELSE 0)
    IN IF t = <<>> THEN Num(0)
       ELSE IF nd >= 1 /\ fe = Len(t) + 1
            THEN Num(IF At(t, 1) = "-" THEN -mag ELSE mag)
            ELSE NaN))))

\* ------------------------------------------------------ market normalizer
stringifyId(v) ==
  IF v.k = "str" /\ Trim(v.s) # <<>> THEN Trim(v.s)
  ELSE IF v.k = "num" THEN NumberToString(v.v)
  ELSE <<>>

\* v is a number, a string or anything else (JSON null, an object)
coerceNumber(v) ==
  IF v.k = "num" THEN Num(v.v)
  ELSE IF v.k = "str"
       THEN Let(NumberOfString(v.s), LAMBDA n : IF n.k = "num" THEN n ELSE Null)
       ELSE Null

\* A list field is absent ("undef"), a native array ("arr"), a string that
\* JSON.parse turns into an array ("json"), a string it turns into something
\* else ("jsonother") or a string it rejects ("badjson"); safeJsonParse is the
\* decoding of that tag.
NoList == [k |-> "undef", items |-> <<>>]

Arr(items) == [k |-> "arr", items |-> items]

Json(items) == [k |-> "json", items |-> items]

BadJson == [k |-> "badjson", items |-> <<>>]

JsonOther == [k |-> "jsonother", items |-> <<>>]

CoalesceList(a, b) == IF a.k = "undef" THEN b ELSE a

\* the result is [ok, items]: ok FALSE is undefined
coerceStringArray(v) ==
  IF v.k \in {"arr", "json"} /\ \A i \in 1..Len(v.items) : v.items[i].k = "str"
  THEN [ok |-> TRUE, items |-> [i \in 1..Len(v.items) |-> v.items[i].s]]
  ELSE [ok |-> FALSE, items |-> <<>>]

coerceNumberArray(v) ==
  Let(Tuple([i \in 1..Len(v.items) |-> coerceNumber(v.items[i])]), LAMBDA nums :
    IF v.k \in {"arr", "json"} /\ \E i \in 1..Len(nums) : nums[i].k # "null"
    THEN [ok |-> TRUE,
          items |-> [i \in 1..Len(nums) |-> IF nums[i].k = "null" THEN NaN ELSE nums[i]]]
    ELSE [ok |-> FALSE, items |-> <<>>])

\* priceArr[i], undefined past the end
PriceAt(priceArr, i) == IF i <= Len(priceArr) THEN priceArr[i] ELSE Absent

\* the loop without its typeof/isFinite test: prices[name] = priceArr[i]
buildPrices_unchecked(outcomes, priceArr) ==
  LET names == {outcomes[i] : i \in 1..Len(outcomes)}
      last(n) == SetMax({i \in 1..Len(outcomes) : outcomes[i] = n})
      zipped == Len(outcomes) > 0 /\ priceArr.ok /\ Len(priceArr.items) > 0
  IN [n \in names |->
        IF zipped THEN PriceAt(priceArr.items, last(n)) ELSE Null]

\* the prices object after the loop of assignments prices[name] = ...: a later
\* assignment to the same name replaces the earlier one
buildPrices(outcomes, priceArr) ==
  LET names == {outcomes[i] : i \in 1..Len(outcomes)}
      last(n) == SetMax({i \in 1..Len(outcomes) : outcomes[i] = n})
      zipped == Len(outcomes) > 0 /\ priceArr.ok /\ Len(priceArr.items) > 0
  IN [n \in names |->
        IF zipped /\ PriceAt(priceArr.items, last(n)).k = "num"
        THEN PriceAt(priceArr.items, last(n))
        ELSE Null]

YesNames == { <<"y", "e", "s">>, <<"y">>, <<"t", "r", "u", "e">> }

deriveYesPrice(outcomes, prices) ==
  LET hits == {i \in 1..Len(outcomes) : LowerText(Trim(outcomes[i])) \in YesNames}
  IN IF Len(outcomes) = 0 THEN Null
     ELSE IF hits # {} THEN prices[outcomes[SetMin(hits)]]
     ELSE prices[outcomes[1]]

\* the identifier the loop derives for a record: <<>> when it derives none
marketIdOf(m) ==
  stringifyId(Coalesce(m.id, Coalesce(m.market_id, Coalesce(m.conditionId, m.condition_id))))

\* one iteration of the loop for a record whose identifier is not empty
normalizeOne(m) ==
  Let(marketIdOf(m), LAMBDA marketId :
  Let(coerceStringArray(m.outcomes), LAMBDA sa :
  Let(IF sa.ok THEN sa.items ELSE <<>>, LAMBDA outcomes :
  Let(coerceNumberArray(CoalesceList(m.outcomePrices, m.outcome_prices)), LAMBDA priceArr :
  Let(buildPrices(outcomes, priceArr), LAMBDA prices :
  Let(coerceNumber(Coalesce(m.liquidityNum, Coalesce(m.liquidity, m.liquidityClob))), LAMBDA liquidity :
  Let(coerceNumber(Coalesce(m.volumeNum, Coalesce(m.volume, m.volumeClob))), LAMBDA volume :
    LET t == Coalesce(m.question, Coalesce(m.title, Coalesce(m.name, Coalesce(m.slug, Str(marketId)))))
        ev == Coalesce(m.event_id, Coalesce(m.eventId, m.events0id))
    IN [marketId |-> marketId,
        title |-> Trim(t.s),
        eventId |-> stringifyId(ev),
        outcomes |-> outcomes,
        prices |-> prices,
        yes_price |-> deriveYesPrice(outcomes, prices),
        liquidity |-> IF liquidity.k = "null" THEN Absent ELSE liquidity,
        volume |-> IF volume.k = "null" THEN Absent ELSE volume])))))))

hasPrices(m) ==
  Let(coerceStringArray(m.outcomes), LAMBDA sa :
  Let(coerceNumberArray(CoalesceList(m.outcomePrices, m.outcome_prices)), LAMBDA pa :
    sa.ok /\ Len(sa.items) > 0 /\ pa.ok /\ Len(pa.items) > 0))

Count(seq, P(_)) == Cardinality({i \in 1..Len(seq) : P(seq[i])})

\* the loop with a record skipped when an earlier record of the batch gave the
\* same marketId
normalizeGammaMarkets_dedup(ms) ==
  Let(Ascending({i \in 1..Len(ms) :
                   /\ marketIdOf(ms[i]) # <<>>
                   /\ \A j \in 1..(i - 1) : marketIdOf(ms[j]) # marketIdOf(ms[i])}), LAMBDA idx :
  Let(Tuple([k \in 1..Len(idx) |-> ms[idx[k]]]), LAMBDA kept :
  Let(Tuple([i \in 1..Len(kept) |-> normalizeOne(kept[i])]), LAMBDA out :
    [markets |-> out,
     stats |-> [inputMarkets |-> Len(ms),
                keptMarkets |-> Len(out),
                marketsWithOutcomes |-> Count(out, LAMBDA o : Len(o.outcomes) > 0),
                marketsWithPrices |-> Count(kept, hasPrices),
                binaryMarkets |-> Count(out, LAMBDA o : Len(o.outcomes) = 2),
                multiOutcomeMarkets |-> Count(out, LAMBDA o : Len(o.outcomes) >= 3)]])))

normalizeGammaMarkets(ms) ==
  Let(SelectSeq(ms, LAMBDA m : marketIdOf(m) # <<>>), LAMBDA kept :
  Let(Tuple([i \in 1..Len(kept) |-> normalizeOne(kept[i])]), LAMBDA out :
    [markets |-> out,
     stats |-> [inputMarkets |-> Len(ms),
                keptMarkets |-> Len(out),
                marketsWithOutcomes |-> Count(out, LAMBDA o : Len(o.outcomes) > 0),
                marketsWithPrices |-> Count(kept, hasPrices),
                binaryMarkets |-> Count(out, LAMBDA o : Len(o.outcomes) = 2),
                multiOutcomeMarkets |-> Count(out, LAMBDA o : Len(o.outcomes) >= 3)]]))

\* the argument as the call leaves it: the loop only reads the records and
\* pushes to its own array
inputAfterNormalize(ms) == ms

\* ------------------------------------------------------------- families
RECURSIVE SqueezeHyphens(_)
SqueezeHyphens(s) ==
  IF Len(s) < 2 THEN s
  ELSE IF s[1] = "-" /\ s[2] = "-" THEN SqueezeHyphens(Tail(s))
  ELSE <<s[1]>> \o SqueezeHyphens(Tail(s))

IsSlugChar(c) == c \in Digits \/ \E i \in 1..26 : LowerLetters[i] = c

slugify(s) ==
  Let(SqueezeHyphens([i \in 1..Len(s) |-> IF IsSlugChar(Lower(s[i])) THEN Lower(s[i]) ELSE "-"]),
      LAMBDA sq :
  Let(IF At(sq, 1) = "-" THEN 2 ELSE 1, LAMBDA a :
  Let(IF Len(sq) >= a /\ sq[Len(sq)] = "-" THEN Len(sq) ELSE Len(sq) + 1, LAMBDA e :
  Let(Sub(sq, a, e), LAMBDA st :
    IF Len(st) > 160 THEN SubSeq(st, 1, 160) ELSE st))))

bucketKey(eventId, base) ==
  (IF eventId # <<>> THEN <<"e", "v", "e", "n", "t", ":">> \o eventId \o <<":">> ELSE <<>>)
  \o <<"b", "u", "c", "k", "e", "t", ":">> \o slugify(base)

\* the comparators handed to Array.prototype.sort
Prio(t) == IF t = "bucket" THEN 0 ELSE IF t = "multi" THEN 1 ELSE 2

ScoreDiff_ascending(a, b) ==
  IF a.k = "nan" \/ b.k = "nan" THEN 0 ELSE a.v - b.v

ScoreDiff(a, b) ==
  IF a.k = "nan" \/ b.k = "nan" THEN 0 ELSE b.v - a.v

Compare(kind, a, b) ==
  CASE kind = "low" -> a.range.low - b.range.low
    [] kind = "family" ->
         IF Prio(a.family_type) # Prio(b.family_type)
         THEN Prio(a.family_type) - Prio(b.family_type)
         ELSE b.num_outcomes - a.num_outcomes
    [] kind = "score" -> ScoreDiff(a.opportunity_score, b.opportunity_score)
    [] kind = "rank" ->
         IF b.opportunity_score # a.opportunity_score \/ a.opportunity_score.k = "nan"
         THEN ScoreDiff(a.opportunity_score, b.opportunity_score)
         ELSE b.num_outcomes - a.num_outcomes

\* Array.prototype.sort is stable: x goes behind the elements it does not precede
RECURSIVE InsertSorted(_, _, _)
InsertSorted(kind, s, x) ==
  IF s = <<>> \/ Compare(kind, s[Len(s)], x) <= 0 THEN Append(s, x)
  ELSE Append(InsertSorted(kind, SubSeq(s, 1, Len(s) - 1), x), s[Len(s)])

RECURSIVE SortWith(_, _)
SortWith(kind, s) ==
  IF s = <<>> THEN <<>>
  ELSE InsertSorted(kind, SortWith(kind, SubSeq(s, 1, Len(s) - 1)), s[Len(s)])

NoSingle == [marketId |-> <<>>, yes_price |-> Null, liquidity |-> Absent, volume |-> Absent]

\* the member pushed for market m with parse result pr
BucketOutcome(m, pr) ==
  [marketId |-> m.marketId,
   label |-> pr.range.normalizedLabel,
   range |-> pr.range,
   yes_price |-> m.yes_price,
   liquidity |-> m.liquidity,
   volume |-> m.volume,
   rangeParseConfidence |-> pr.confidence]

\* the first unit with the largest count, in the order the units first appear
dominantUnit(members) ==
  LET cnt(i) == Cardinality({j \in 1..Len(members) : members[j].range.unit = members[i].range.unit})
      best == SetMax({cnt(i) : i \in 1..Len(members)})
      first == SetMin({i \in 1..Len(members) : cnt(i) = best})
  IN [unit |-> members[first].range.unit, count |-> best]

unitBonus_none(unit, dom) == 0

unitBonus(unit, dom) == IF unit = dom.unit /\ dom.count >= 2 THEN 1 ELSE 0

keepsOutcome_any(m) == m.rangeParseConfidence >= 1

keepsOutcome(m) == m.rangeParseConfidence >= 2

\* the buckets of one group: adjusted, filtered, sorted by range.low
groupBuckets(members) ==
  LET dom == dominantUnit(members)
      adj == Tuple([i \in 1..Len(members) |->
                [members[i] EXCEPT !.rangeParseConfidence = @ + unitBonus(members[i].range.unit, dom)]])
  IN SortWith("low", SelectSeq(adj, keepsOutcome))

\* pass 1: the bucket families, in the order their keys first appear
bucketFamilies(markets) ==
  Let(Tuple([i \in 1..Len(markets) |-> parseRangeWithConfidence(markets[i].title)]), LAMBDA pr :
  Let(Tuple([i \in 1..Len(markets) |-> removeFirstRangeForGrouping(markets[i].title).base]), LAMBDA base :
  Let(Tuple([i \in 1..Len(markets) |-> bucketKey(markets[i].eventId, base[i])]), LAMBDA key :
  Let({i \in 1..Len(markets) : pr[i].ok}, LAMBDA cand :
  Let(Ascending({i \in cand : \A j \in cand : j < i => key[j] # key[i]}), LAMBDA firsts :
    LET group(f) ==
          Let(Ascending({i \in cand : key[i] = key[f]}), LAMBDA idx :
          Let(groupBuckets(Tuple([k \in 1..Len(idx) |-> BucketOutcome(markets[idx[k]], pr[idx[k]])])),
              LAMBDA buckets :
            [family_id |-> key[f], family_type |-> "bucket", title |-> base[f],
             eventId |-> markets[f].eventId, num_outcomes |-> Len(buckets),
             buckets |-> buckets, multi |-> <<>>, single |-> NoSingle]))
    IN SelectSeq(Tuple([k \in 1..Len(firsts) |-> group(firsts[k])]),
                 LAMBDA g : Len(g.buckets) >= 2))))))

\* pass 2 without its test: no market is taken for a member of a bucket family
isInEmittedBucket_never(families, m) == FALSE

isInEmittedBucket(families, m) ==
  \E i \in 1..Len(families) : \E j \in 1..Len(families[i].buckets) :
    families[i].buckets[j].marketId = m.marketId

\* pass 2 without its test of the number of outcomes: every market a single
marketFamily_single(m) ==
  [family_id |-> <<"m", "a", "r", "k", "e", "t", ":">> \o m.marketId, family_type |-> "single", title |-> m.title,
   eventId |-> m.eventId, num_outcomes |-> Len(m.outcomes), buckets |-> <<>>,
   multi |-> <<>>,
   single |-> [marketId |-> m.marketId, yes_price |-> m.yes_price,
               liquidity |-> m.liquidity, volume |-> m.volume]]

\* pass 2: the multi or single family of a market outside the bucket families
marketFamily(m) ==
  IF Len(m.outcomes) >= 3
  THEN [family_id |-> <<"m", "a", "r", "k", "e", "t", ":">> \o m.marketId, family_type |-> "multi", title |-> m.title,
        eventId |-> m.eventId, num_outcomes |-> Len(m.outcomes), buckets |-> <<>>,
        multi |-> [i \in 1..Len(m.outcomes) |->
                     [name |-> m.outcomes[i], price |-> m.prices[m.outcomes[i]]]],
        single |-> NoSingle]
  ELSE [family_id |-> <<"m", "a", "r", "k", "e", "t", ":">> \o m.marketId, family_type |-> "single", title |-> m.title,
        eventId |-> m.eventId, num_outcomes |-> Len(m.outcomes), buckets |-> <<>>,
        multi |-> <<>>,
        single |-> [marketId |-> m.marketId, yes_price |-> m.yes_price,
                    liquidity |-> m.liquidity, volume |-> m.volume]]

buildFamilies(markets) ==
  Let(bucketFamilies(markets), LAMBDA bf :
  Let(SelectSeq(markets, LAMBDA m : ~isInEmittedBucket(bf, m)), LAMBDA rest :
    SortWith("family", bf \o [i \in 1..Len(rest) |-> marketFamily(rest[i])])))

\* the argument as the call leaves it: map, filter and sort act on arrays the
\* function built itself
inputAfterBuild(markets) == markets

\* -------------------------------------------------------------- scoring
\* Prices and liquidity are held in thousandths; scores, spikes and z-scores in
\* millionths; cluster ratios in thousandths (the division is cut to three
\* decimals, the square root to the integer below).
Micro(n) == n * 1000000

NegInf == [k |-> "ninf", v |-> 0]

isValidProb(p) == p.k = "num" /\ p.v > 1 /\ p.v < 999

RECURSIVE sum(_)
sum(xs) == IF xs = <<>> THEN 0 ELSE Head(xs) + sum(Tail(xs))

\* Math.max(0, Math.min(1, x)): NaN stays NaN
clamp01(x) ==
  IF x.k = "nan" THEN NaN
  ELSE IF x.k = "ninf" \/ x.v < 0 THEN Num(0)
  ELSE IF x.v > Micro(1) THEN Num(Micro(1))
  ELSE x

\* the quotient cut toward zero
Quot(a, b) == IF a < 0 THEN -((-a) \div b) ELSE a \div b

RECURSIVE Pow10(_)
Pow10(d) == IF d = 0 THEN 1 ELSE 10 * Pow10(d - 1)

\* the integer square root of x, searched between lo and hi
RECURSIVE SqrtIn(_, _, _)
SqrtIn(x, lo, hi) ==
  IF lo >= hi THEN lo
  ELSE LET mid == (lo + hi + 1) \div 2
       IN IF mid * mid <= x THEN SqrtIn(x, mid, hi) ELSE SqrtIn(x, lo, mid - 1)

Sqrt(x) == SqrtIn(x, 0, 1000)

\* Math.log10 of x thousandths, in millionths: exact at the powers of ten,
\* linear between them
log10(x) ==
  IF x < 0 THEN NaN
  ELSE IF x = 0 THEN NegInf
  ELSE Let(SetMax({d \in 0..9 : Pow10(d) <= x}), LAMBDA e :
         LET frac == IF e >= 3 THEN (x - Pow10(e)) \div (9 * Pow10(e - 3))
                     ELSE ((x - Pow10(e)) * 1000) \div (9 * Pow10(e))
         IN Num(Micro(e - 3) + frac * 1000))

rangeAdjacencyStats(buckets) ==
  [gapCount |-> Cardinality({i \in 2..Len(buckets) : buckets[i].range.low > buckets[i - 1].range.high}),
   overlapCount |-> Cardinality({i \in 2..Len(buckets) : buckets[i].range.low < buckets[i - 1].range.high})]

maxOrNull(xs) ==
  LET fin == {xs[i].v : i \in {j \in 1..Len(xs) : xs[j].k = "num"}}
  IN IF fin = {} THEN Null ELSE Num(SetMax(fin))

computeMaxSpike(buckets) ==
  LET ok == {i \in 2..Len(buckets) - 1 :
               /\ isValidProb(buckets[i - 1].yes_price)
               /\ isValidProb(buckets[i].yes_price)
               /\ isValidProb(buckets[i + 1].yes_price)}
      spike(i) == 500 * Abs(2 * buckets[i].yes_price.v
                            - (buckets[i - 1].yes_price.v + buckets[i + 1].yes_price.v))
  IN IF ok = {} THEN Null ELSE Num(SetMax({spike(i) : i \in ok}))

NoCluster == [found |-> FALSE, labels |-> <<>>, cost |-> 0, ratio |-> 0, z |-> 0]

\* the candidate for the k buckets after the first i, or <<>> when a price of
\* the cluster or of its window is not valid
clusterCand(buckets, k, i) ==
  LET n == Len(buckets)
      wStart == IF i - 2 > 0 THEN i - 2 ELSE 0
      wEnd == IF n - 1 < i + k + 1 THEN n - 1 ELSE i + k + 1
      cluster == SubSeq(buckets, i + 1, i + k)
      window == SubSeq(buckets, wStart + 1, wEnd + 1)
      cost == sum([j \in 1..Len(cluster) |-> cluster[j].yes_price.v])
      windowSum == sum([j \in 1..Len(window) |-> window[j].yes_price.v])
  IN IF \E j \in 1..Len(cluster) : ~isValidProb(cluster[j].yes_price) THEN <<>>
     ELSE IF \E j \in 1..Len(window) : ~isValidProb(window[j].yes_price) THEN <<>>
     ELSE << [labels |-> [j \in 1..Len(cluster) |-> cluster[j].label],
              cost |-> cost,
              ratio |-> (cost * 1000) \div windowSum] >>

\* the candidates without the runs of 2
clusterCands_wide(buckets) ==
  LET of(k) == Flatten([j \in 1..(IF Len(buckets) >= k THEN Len(buckets) - k + 1 ELSE 0) |->
                          clusterCand(buckets, k, j - 1)])
  IN of(3) \o of(4)

clusterCands(buckets) ==
  LET of(k) == Flatten([j \in 1..(IF Len(buckets) >= k THEN Len(buckets) - k + 1 ELSE 0) |->
                          clusterCand(buckets, k, j - 1)])
  IN of(2) \o of(3) \o of(4)

findBestClusterByLocalMassZ(buckets) ==
  Let(clusterCands(buckets), LAMBDA cands :
    IF Len(cands) = 0 THEN NoCluster
    ELSE
  Let(Len(cands), LAMBDA n :
  Let(sum([i \in 1..n |-> cands[i].ratio]) \div n, LAMBDA mean :
  Let(Sqrt(sum([i \in 1..n |-> (cands[i].ratio - mean) * (cands[i].ratio - mean)]) \div n),
      LAMBDA std :
  Let(Tuple([i \in 1..n |->
         IF std > 0 THEN Quot((cands[i].ratio - mean) * Micro(1), std * 1000) * 1000 ELSE 0]),
      LAMBDA z :
  Let(SetMin({z[i] : i \in 1..n}), LAMBDA zmin :
  Let(SetMin({i \in 1..n : z[i] = zmin}), LAMBDA best :
    [found |-> TRUE, labels |-> cands[best].labels, cost |-> cands[best].cost,
     ratio |-> cands[best].ratio, z |-> z[best]])))))))

liquidityScore(liquidityMax) ==
  IF liquidityMax.k = "null" THEN Num(0)
  ELSE Let(log10(1000 + liquidityMax.v), LAMBDA lg :
         clamp01(IF lg.k = "num" THEN Num(lg.v \div 5) ELSE lg))

NoFeatures ==
  [present |-> FALSE, validPrices |-> 0, missingPrices |-> 0, gapCount |-> 0,
   overlapCount |-> 0, liquidityMax |-> Null, volumeMax |-> Null, overround |-> Null,
   maxSpike |-> Null, bestCluster |-> NoCluster]

Scored(f, features, score, reasons) ==
  [family_id |-> f.family_id, family_type |-> f.family_type, title |-> f.title,
   eventId |-> f.eventId, num_outcomes |-> f.num_outcomes, buckets |-> f.buckets,
   multi |-> f.multi, single |-> f.single,
   features |-> features, opportunity_score |-> score, reasons |-> reasons]

scoreMulti(f) ==
  Let(Tuple([i \in 1..Len(f.multi) |-> f.multi[i].price]), LAMBDA ps :
  Let(SelectSeq(ps, isValidProb), LAMBDA valid :
  Let(sum([i \in 1..Len(valid) |-> valid[i].v]), LAMBDA sumP :
    LET missing == Len(ps) - Len(valid)
        edge == IF Len(valid) >= 3 THEN Abs(1000 - sumP) * 1000 ELSE 0
    IN Scored(f, NoFeatures, clamp01(Num(edge)),
              (IF Len(valid) >= 3 THEN << <<"multi overround", sumP>> >>
               ELSE << <<"insufficient prices for multi overround", 0>> >>)
              \o (IF missing > 0 THEN << <<"missingPrices", missing>> >> ELSE <<>>)))))

scoreSingle(f) == Scored(f, NoFeatures, Num(0), << <<"single/binary", 0>> >>)

\* the penalties taken as exclusive: only the largest applies
penaltyOf_largest(missingPrices, gapCount, overlapCount) ==
  IF overlapCount > 0 THEN 250000
  ELSE IF gapCount > 0 THEN 150000
  ELSE IF missingPrices > 0 THEN 100000 ELSE 0

penaltyOf(missingPrices, gapCount, overlapCount) ==
  (IF missingPrices > 0 THEN 100000 ELSE 0)
  + (IF gapCount > 0 THEN 150000 ELSE 0)
  + (IF overlapCount > 0 THEN 250000 ELSE 0)

scoreBucket(f) ==
  Let(rangeAdjacencyStats(f.buckets), LAMBDA adj :
  Let(Tuple([i \in 1..Len(f.buckets) |-> f.buckets[i].yes_price]), LAMBDA ps :
  Let(SelectSeq(ps, isValidProb), LAMBDA valid :
  Let(IF Len(valid) >= 2 THEN Num(sum([i \in 1..Len(valid) |-> valid[i].v])) ELSE Null,
      LAMBDA overround :
  Let(computeMaxSpike(f.buckets), LAMBDA maxSpike :
  Let(findBestClusterByLocalMassZ(f.buckets), LAMBDA bestCluster :
  Let(maxOrNull([i \in 1..Len(f.buckets) |-> f.buckets[i].liquidity]), LAMBDA liquidityMax :
  Let(maxOrNull([i \in 1..Len(f.buckets) |-> f.buckets[i].volume]), LAMBDA volumeMax :
  Let(liquidityScore(liquidityMax), LAMBDA liq :
  LET missingPrices == Len(ps) - Len(valid)
      reasons ==
        (IF overround.k = "null" THEN << <<"insufficient prices for overround", 0>> >>
         ELSE (IF overround.v < 950 THEN << <<"underround", overround.v>> >> ELSE <<>>)
              \o (IF overround.v > 1050 THEN << <<"overround", overround.v>> >> ELSE <<>>))
        \o (IF maxSpike.k = "num" /\ maxSpike.v >= 80000 THEN << <<"spike", maxSpike.v>> >> ELSE <<>>)
        \o (IF bestCluster.found THEN << <<"bestCluster cost", bestCluster.cost>> >> ELSE <<>>)
        \o (IF adj.gapCount > 0 THEN << <<"gaps", adj.gapCount>> >> ELSE <<>>)
        \o (IF adj.overlapCount > 0 THEN << <<"overlaps", adj.overlapCount>> >> ELSE <<>>)
      looksPartitioned == adj.gapCount = 0 /\ adj.overlapCount = 0 /\ Len(f.buckets) >= 6
      underroundEdge ==
        IF looksPartitioned /\ overround.k = "num" /\ overround.v < 1000
        THEN (1000 - overround.v) * 1000 ELSE 0
      spikeScore == IF maxSpike.k = "num" THEN maxSpike.v ELSE 0
      clusterCheapnessScore ==
        IF bestCluster.found THEN clamp01(Num(Quot(-bestCluster.z, 2))).v ELSE 0
      penalty == penaltyOf(missingPrices, adj.gapCount, adj.overlapCount)
      rawScore == (3 * spikeScore + 3 * underroundEdge + 3 * clusterCheapnessScore + liq.v) \div 10
      features ==
        [present |-> TRUE, validPrices |-> Len(valid), missingPrices |-> missingPrices,
         gapCount |-> adj.gapCount, overlapCount |-> adj.overlapCount,
         liquidityMax |-> liquidityMax, volumeMax |-> volumeMax, overround |-> overround,
         maxSpike |-> maxSpike, bestCluster |-> bestCluster]
  IN Scored(f, features,
            IF liq.k = "nan" THEN NaN ELSE clamp01(Num(rawScore - penalty)),
            reasons))))))))))

scoreFamily(f) ==
  IF f.family_type # "bucket" \/ Len(f.buckets) = 0
  THEN (IF f.family_type = "multi" /\ Len(f.multi) > 0 THEN scoreMulti(f) ELSE scoreSingle(f))
  ELSE scoreBucket(f)

scoreFamilies(families) == Tuple([i \in 1..Len(families) |-> scoreFamily(families[i])])

\* the argument as the call leaves it: map builds a new array of new objects
inputAfterScore(families) == families

\* ---------------------------------------------------------------- ranking
\* f.features?.x ?? d
FeatureOr(f, x, d) == IF f.features.present THEN x ELSE d

passesLiquidity_present(liq) == liq.k # "null" /\ liq.v >= Thousandths(500)

passesLiquidity(liq) == ~(liq.k # "null" /\ liq.v < Thousandths(500))

keepsFamily(f) ==
  \/ f.family_type # "bucket"
  \/ /\ FeatureOr(f, f.features.validPrices, 0) >= 6
     /\ FeatureOr(f, f.features.missingPrices, 999) <= 2
     /\ FeatureOr(f, f.features.gapCount, 999) <= 2
     /\ FeatureOr(f, f.features.overlapCount, 999) <= 0
     /\ (f.features.present => passesLiquidity(f.features.liquidityMax))

rankFamilies(families) == SortWith("rank", SelectSeq(families, keepsFamily))

\* the argument left sorted, as a sort of the argument itself would leave it
inputAfterRank_sorted(families) == SortWith("rank", families)

\* the argument as the call leaves it: filter and slice copy, the sort acts on
\* the copy
inputAfterRank(families) == families

\* -------------------------------------------------------- paper trading
\* Money is held in cents, shares in hundredths, prices in thousandths, time
\* in hours.
Cents(n) == n * 100

bankrollStartUsd == Cents(500)

maxNewTradesPerScan == 2

maxTradeUsd == Cents(25)

cooldownHours == 6

takeProfitMove == 20

stopLossMove == -20

maxHoldHours == 24

\* cfg.maxExposurePct is 0.3, held in tenths
maxExposurePct == 3

\* nav * cfg.maxExposurePct, in tenths of a cent
maxExposureUsd(nav) == nav * maxExposurePct

YesOutcome == <<"Y", "e", "s">>

\* the rows of prices_raw.json: one per market that has outcomes
fetchPrices(markets) ==
  Let(SelectSeq(markets, LAMBDA m : Len(m.outcomes) > 0), LAMBDA ms :
    Tuple([i \in 1..Len(ms) |->
             [marketId |-> ms[i].marketId,
              outcomes |-> ms[i].outcomes,
              outcomePrices |-> [j \in 1..Len(ms[i].outcomes) |->
                                   IF ms[i].prices[ms[i].outcomes[j]].k = "num"
                                   THEN ms[i].prices[ms[i].outcomes[j]] ELSE Null]]]))

\* the snapshot's map looked up: a later row of a market and a later entry of
\* an outcome replace the earlier ones
getOutcomePrice(snapshot, marketId, outcome) ==
  Let({i \in 1..Len(snapshot) : snapshot[i].marketId = marketId}, LAMBDA rows :
    IF rows = {} THEN Null
    ELSE Let(snapshot[SetMax(rows)], LAMBDA row :
         Let({j \in 1..Len(row.outcomes) : row.outcomes[j] = outcome}, LAMBDA hits :
           IF hits = {} THEN Null
           ELSE IF row.outcomePrices[SetMax(hits)].k = "num" THEN row.outcomePrices[SetMax(hits)]
           ELSE Null)))

NoState == [version |-> 0, bankrollCashUsd |-> 0, positions |-> <<>>, lastEntryByFamilyId |-> <<>>]

defaultState ==
  [version |-> 1, bankrollCashUsd |-> bankrollStartUsd, positions |-> <<>>,
   lastEntryByFamilyId |-> <<>>]

\* loadPaperState() ?? defaultState(cfg, ts)
loadPaperState(file) == IF file.version = 1 THEN file ELSE defaultState

exposureUsd(positions) == sum([i \in 1..Len(positions) |-> positions[i].entryUsd])

Event(ts, type, pos, px, usd, pnl, reason, hold) ==
  [ts |-> ts, type |-> type, positionId |-> pos.id, family_id |-> pos.family_id, marketId |-> pos.marketId,
   outcome |-> pos.outcome, price |-> px, shares |-> pos.shares, usd |-> usd,
   pnl |-> pnl, reason |-> reason, holdHours |-> hold]

\* the first loop: a position with a price is marked
markPosition(pos, snap, now) ==
  Let(getOutcomePrice(snap, pos.marketId, pos.outcome), LAMBDA px :
    IF px.k = "null" THEN pos
    ELSE [pos EXCEPT !.lastMarkTs = Num(now), !.lastMarkPrice = px])

markEvents(positions, snap, now) ==
  Let(SelectSeq(positions, LAMBDA pos : getOutcomePrice(snap, pos.marketId, pos.outcome).k # "null"),
      LAMBDA priced :
    Tuple([i \in 1..Len(priced) |->
             Let(getOutcomePrice(snap, priced[i].marketId, priced[i].outcome).v, LAMBDA px :
               Event(now, "MARK", priced[i], px, 0,
                     ((px - priced[i].entryPrice) * priced[i].shares) \div 1000, "", 0))]))

\* the exit rule without its holding-time clause
shouldExit_noHold(pos, snap, now) ==
  Let(getOutcomePrice(snap, pos.marketId, pos.outcome), LAMBDA px :
    /\ px.k # "null"
    /\ \/ px.v - pos.entryPrice >= takeProfitMove
       \/ px.v - pos.entryPrice <= stopLossMove)

shouldExit(pos, snap, now) ==
  Let(getOutcomePrice(snap, pos.marketId, pos.outcome), LAMBDA px :
    /\ px.k # "null"
    /\ \/ px.v - pos.entryPrice >= takeProfitMove
       \/ px.v - pos.entryPrice <= stopLossMove
       \/ now - pos.entryTs >= maxHoldHours)

exitReason(move) ==
  IF move >= takeProfitMove THEN "TP" ELSE IF move <= stopLossMove THEN "SL" ELSE "MAX_HOLD"

\* exitUsd is pos.shares * px with shares = entryUsd / entryPrice: the product is
\* taken before the quotient, so that an unchanged price gives entryUsd back
exitEvent(pos, snap, now) ==
  Let(getOutcomePrice(snap, pos.marketId, pos.outcome).v, LAMBDA px :
  Let((pos.entryUsd * px) \div pos.entryPrice, LAMBDA exitUsd :
    Event(now, "EXIT", pos, px, exitUsd, exitUsd - pos.entryUsd,
          exitReason(px - pos.entryPrice), now - pos.entryTs)))

NoPick == [ok |-> FALSE, marketId |-> <<>>, outcome |-> <<>>]

\* the target taken to be the first bucket whatever the best cluster
pickTradeTarget_firstBucket(f) ==
  IF f.family_type = "bucket"
  THEN (IF f.buckets = <<>> \/ f.buckets[1].marketId = <<>> THEN NoPick
        ELSE [ok |-> TRUE, marketId |-> f.buckets[1].marketId, outcome |-> YesOutcome])
  ELSE IF f.family_type = "single" /\ f.single.marketId # <<>>
  THEN [ok |-> TRUE, marketId |-> f.single.marketId, outcome |-> YesOutcome]
  ELSE NoPick

pickTradeTarget(f) ==
  IF f.family_type = "bucket"
  THEN Let(IF f.features.bestCluster.found /\ f.features.bestCluster.labels # <<>>
           THEN f.features.bestCluster.labels[1] ELSE <<>>, LAMBDA desiredLabel :
       Let(IF desiredLabel # <<>>
           THEN {i \in 1..Len(f.buckets) : f.buckets[i].label = desiredLabel}
           ELSE {i \in 1..Len(f.buckets) : i = 1}, LAMBDA hits :
         IF hits = {} \/ f.buckets[SetMin(hits)].marketId = <<>>
         THEN NoPick
         ELSE [ok |-> TRUE, marketId |-> f.buckets[SetMin(hits)].marketId, outcome |-> YesOutcome]))
  ELSE IF f.family_type = "single" /\ f.single.marketId # <<>>
  THEN [ok |-> TRUE, marketId |-> f.single.marketId, outcome |-> YesOutcome]
  ELSE NoPick

\* families.filter(score is a number > 0).sort(by score, descending)
candidatesOf(families) ==
  SortWith("score", SelectSeq(families, LAMBDA f :
                                 f.opportunity_score.k = "num" /\ f.opportunity_score.v > 0))

\* the continues of the entry loop without the cooldown
skipsEntry_noCooldown(f, st, snap, now, maxExposure) ==
  Let(pickTradeTarget(f), LAMBDA pick :
  Let(getOutcomePrice(snap, pick.marketId, pick.outcome), LAMBDA px :
    \/ f.family_id = <<>>
    \/ ~pick.ok
    \/ px.k = "null"
    \/ ~(px.v > 1 /\ px.v < 999)
    \/ exposureUsd(st.positions) * 10 >= maxExposure))

\* the family is skipped by a continue of the entry loop
skipsEntry(f, st, snap, now, maxExposure) ==
  Let(pickTradeTarget(f), LAMBDA pick :
  Let(getOutcomePrice(snap, pick.marketId, pick.outcome), LAMBDA px :
    \/ f.family_id = <<>>
    \/ f.family_id \in DOMAIN st.lastEntryByFamilyId
         /\ now - st.lastEntryByFamilyId[f.family_id] < cooldownHours
    \/ ~pick.ok
    \/ px.k = "null"
    \/ ~(px.v > 1 /\ px.v < 999)
    \/ exposureUsd(st.positions) * 10 >= maxExposure))

\* the entry with tradeUsd always cfg.maxTradeUsd, whatever the cash
enterPosition_fullTrade(f, st, snap, now) ==
  Let(pickTradeTarget(f), LAMBDA pick :
  Let(getOutcomePrice(snap, pick.marketId, pick.outcome).v, LAMBDA px :
  Let(maxTradeUsd, LAMBDA tradeUsd :
  Let([id |-> st.nextId + 1, family_id |-> f.family_id, family_type |-> f.family_type,
       marketId |-> pick.marketId, outcome |-> pick.outcome, entryTs |-> now,
       entryPrice |-> px, shares |-> (tradeUsd * 1000) \div px, entryUsd |-> tradeUsd,
       lastMarkTs |-> Null, lastMarkPrice |-> Null], LAMBDA pos :
    [bankrollCashUsd |-> st.bankrollCashUsd - tradeUsd,
     positions |-> Append(st.positions, pos),
     lastEntryByFamilyId |->
       [id \in DOMAIN st.lastEntryByFamilyId \cup {f.family_id} |->
          IF id = f.family_id THEN now ELSE st.lastEntryByFamilyId[id]],
     entered |-> Append(st.entered, Event(now, "ENTRY", pos, px, tradeUsd, 0, "topFamily", 0)),
     nextId |-> st.nextId + 1]))))

\* the state after the position for family f is entered
enterPosition(f, st, snap, now) ==
  Let(pickTradeTarget(f), LAMBDA pick :
  Let(getOutcomePrice(snap, pick.marketId, pick.outcome).v, LAMBDA px :
  Let(IF maxTradeUsd < st.bankrollCashUsd THEN maxTradeUsd ELSE st.bankrollCashUsd, LAMBDA tradeUsd :
  Let([id |-> st.nextId + 1, family_id |-> f.family_id, family_type |-> f.family_type,
       marketId |-> pick.marketId, outcome |-> pick.outcome, entryTs |-> now,
       entryPrice |-> px, shares |-> (tradeUsd * 1000) \div px, entryUsd |-> tradeUsd,
       lastMarkTs |-> Null, lastMarkPrice |-> Null], LAMBDA pos :
    [bankrollCashUsd |-> st.bankrollCashUsd - tradeUsd,
     positions |-> Append(st.positions, pos),
     lastEntryByFamilyId |->
       [id \in DOMAIN st.lastEntryByFamilyId \cup {f.family_id} |->
          IF id = f.family_id THEN now ELSE st.lastEntryByFamilyId[id]],
     entered |-> Append(st.entered, Event(now, "ENTRY", pos, px, tradeUsd, 0, "topFamily", 0)),
     nextId |-> st.nextId + 1]))))

\* the entry loop over the candidates still to visit
RECURSIVE entryLoop(_, _, _, _, _)
entryLoop(cands, st, snap, now, maxExposure) ==
  IF cands = <<>> \/ Len(st.entered) >= maxNewTradesPerScan THEN st
  ELSE IF skipsEntry(Head(cands), st, snap, now, maxExposure)
  THEN entryLoop(Tail(cands), st, snap, now, maxExposure)
  ELSE IF st.bankrollCashUsd <= 0 THEN st
  ELSE entryLoop(Tail(cands), enterPosition(Head(cands), st, snap, now), snap, now, maxExposure)

\* one run: the state saved and the events appended
runPaperTrade(file, families, snap, now, nextId) ==
  Let(loadPaperState(file), LAMBDA existing :
  Let(Tuple([i \in 1..Len(existing.positions) |-> markPosition(existing.positions[i], snap, now)]),
      LAMBDA positions :
  Let(SelectSeq(positions, LAMBDA pos : shouldExit(pos, snap, now)), LAMBDA exiting :
  Let(SelectSeq(positions, LAMBDA pos : ~shouldExit(pos, snap, now)), LAMBDA remaining :
  Let(Tuple([i \in 1..Len(exiting) |-> exitEvent(exiting[i], snap, now)]), LAMBDA exits :
  Let(existing.bankrollCashUsd + sum([i \in 1..Len(exits) |-> exits[i].usd]), LAMBDA cash :
  Let(entryLoop(candidatesOf(families),
                [bankrollCashUsd |-> cash, positions |-> remaining,
                 lastEntryByFamilyId |-> existing.lastEntryByFamilyId,
                 entered |-> <<>>, nextId |-> nextId],
                snap, now, maxExposureUsd(cash + exposureUsd(remaining))), LAMBDA st :
    [state |-> [version |-> 1, bankrollCashUsd |-> st.bankrollCashUsd, positions |-> st.positions,
                lastEntryByFamilyId |-> st.lastEntryByFamilyId],
     events |-> markEvents(existing.positions, snap, now) \o exits \o st.entered,
     nextId |-> st.nextId])))))))

\* ------------------------------------------------------------ fetchMarkets
\* An environment variable: unset (or empty), a text that is no number, or a
\* number, held in tenths.
EnvUnset == [k |-> "unset", v |-> 0]

EnvText == [k |-> "text", v |-> 0]

EnvNum(t) == [k |-> "num", v |-> t]

\* Math.trunc of a number held in tenths
Trunc(t) == Quot(t, 10)

defaultGammaLimit == 200

minEnvInt == 1

maxPageEnv == 500

maxMarketsEnv == 1000000

Bounded(i, min, max) == IF i < min THEN min ELSE IF i > max THEN max ELSE i

envIntOr(raw, fallback, min, max) ==
  IF raw.k # "num" THEN fallback ELSE Bounded(Trunc(raw.v), min, max)

envIntOpt(raw, min, max) ==
  IF raw.k # "num" THEN Null ELSE Num(Bounded(Trunc(raw.v), min, max))

\* the two checks at the top of an iteration: the reason to stop, or <<>>
capStop(pageCap, marketCap, collected, pages) ==
  IF pageCap.k = "num" /\ pages >= pageCap.v
    THEN <<"pageLimitReached", pageCap.v>>
  ELSE IF marketCap.k = "num" /\ Len(collected) >= marketCap.v
    THEN <<"maxMarketsReached", marketCap.v>>
  ELSE <<>>

trimTo_none(collected, n) == collected

\* rawMarkets.length = maxMarkets
trimTo(collected, n) == SubSeq(collected, 1, n)

\* one answered request: the markets collected and the reason to stop, or <<>>
afterPage(limit, marketCap, collected, arr) ==
  IF marketCap.k = "num" /\ Len(collected \o arr) > marketCap.v
    THEN [raw |-> trimTo(collected \o arr, marketCap.v),
          stop |-> <<"trimmedToMaxMarkets", marketCap.v>>]
  ELSE IF Len(arr) < limit
    THEN [raw |-> collected \o arr, stop |-> <<"shortPage", Len(arr)>>]
  ELSE [raw |-> collected \o arr, stop |-> <<>>]

\* ------------------------------------------------------------ file logger
\* The promise a link is chained on: Promise.resolve() for the first write
\* call, the link of the write call before it for any other. A promise is
\* "pending", "appending" (its appendFile is running), "fulfilled" or "rejected".
linkBefore_none(links, k) == "fulfilled"

linkBefore(links, k) == IF k = 1 THEN "fulfilled" ELSE links[k - 1]

\* `${ts} ${level} ${msg}`: the message is numbered by its call
logLine(level, n) == <<level, n>>

\* the promise flush awaits: the chain as it is when flush is called
awaited(links, upto) == IF upto = 0 THEN "fulfilled" ELSE links[upto]

\* ---------------------------------------------------------------- scan run
\* the steps of main at which an awaited call can reject
Awaiting ==
  {"logger", "fetch", "prices", "rows", "families", "heartbeat", "dashboard", "summary"}

\* the fatal exits of main: log.error, then process.exitCode
fatalExit(code, logged) == IF logged THEN code ELSE 1

\* rawCount === 0 || marketsLoose.length === 0
zeroMarkets(rawCount, parsedCount) == rawCount = 0 \/ parsedCount = 0

\* ---------------------------------------------------------------- state
VARIABLES
  text,      \* range parser: the text handed to it
  ntoks,     \* range parser: the number of pieces the text was drawn from
  ranged,    \* range parser: parseRangeFromText(text)
  parsed,    \* range parser: parseRangeWithConfidence(text)
  grouped    \* range parser: removeFirstRangeForGrouping(text)

parseVars == <<text, ntoks, ranged, parsed, grouped>>

VARIABLES
  fenv,           \* fetchMarkets: process.env (GAMMA_LIMIT, GAMMA_PAGE_LIMIT, MAX_MARKETS)
  gammaLimit,     \* fetchMarkets: the page size asked for
  gammaPageLimit, \* fetchMarkets: the page cap, or Null
  maxMarkets,     \* fetchMarkets: the market cap, or Null
  rawMarkets,     \* fetchMarkets: the markets collected (each the number of its page)
  pagesFetched,   \* fetchMarkets: the pages requested so far
  stopReason,     \* fetchMarkets: why the loop ended
  requests,       \* fetchMarkets: the offset and the answer's length of each request
  rawFile,        \* fetchMarkets: data/raw/markets_raw.json
  fphase          \* fetchMarkets: "idle", "loop", "done" or "threw"

fetchVars ==
  <<fenv, gammaLimit, gammaPageLimit, maxMarkets, rawMarkets, pagesFetched,
    stopReason, requests, rawFile, fphase>>

VARIABLES
  lines,     \* file logger: the line of each write call, in call order
  chain,     \* file logger: the promise of each write call's link of the chain
  logFile,   \* file logger: logs/scan.log
  flushes    \* file logger: the flush calls: the link each awaits, and its promise

logVars == <<lines, chain, logFile, flushes>>

VARIABLES
  pc,            \* scan run: the step main is at ("idle" before any run, "exited" after one)
  scanNo,        \* scan run: the number of this run
  exitCode,      \* scan run: process.exitCode (0: never set)
  counts,        \* scan run: rawCount, marketsLoose.length, keptMarkets, families.length
  paperTrade,    \* scan run: process.env.PAPER_TRADE === "1"
  rowsFile,      \* scan run: data/db/family_scores.jsonl (the run of each batch of rows)
  outFiles       \* scan run: the run that last wrote each file of data/raw, data/out, data/db

mainVars == <<pc, scanNo, exitCode, counts, paperTrade, rowsFile, outFiles>>

runVars == <<fetchVars, logVars, mainVars>>

VARIABLES
  raw,       \* normalizer: the batch of raw records fetched
  nphase,    \* normalizer: "collect" while the batch grows, then "normalized"
  nout       \* normalizer: the result {markets, stats} of normalizeGammaMarkets

normVars == <<raw, nphase, nout>>

VARIABLES
  markets,   \* scan: the batch of normalized markets
  rung,      \* scan: the upper endpoint of the last ladder title drawn
  odd,       \* scan: how many markets of the batch depart from the plain ladder
  sphase,    \* scan: "collect", "built", "scored" or "ranked"
  families,  \* scan: the result of buildFamilies
  scored,    \* scan: the result of scoreFamilies
  ranked     \* scan: the result of rankFamilies

scanVars == <<markets, rung, odd, sphase, families, scored, ranked>>

VARIABLES
  dpair,     \* dash forms: the two numbers written, in tenths (<<>> before any)
  dform,     \* dash forms: the separator written between them and whether it is spaced
  dashed     \* dash forms: parseRangeFromText of the text written

dashVars == <<dpair, dform, dashed>>

VARIABLES
  pfamilies, \* paper trading: data/out/families.json, the ranked families of the last scan
  psnap,     \* paper trading: data/raw/prices_raw.json, the price rows of the last scan
  pstate,    \* paper trading: data/db/paper_state.json (version 0: no file yet)
  pevents,   \* paper trading: the events the last run appended
  ptrades,   \* paper trading: data/db/paper_trades.jsonl, the events of all runs
  pnow,      \* paper trading: the clock, in hours
  pnext,     \* paper trading: the number of position ids handed out
  pphase,    \* paper trading: "idle", "scanned" (files written) or "traded"
  pscans     \* paper trading: the number of scans so far

paperVars == <<pfamilies, psnap, pstate, pevents, ptrades, pnow, pnext, pphase, pscans>>

vars == <<parseVars, normVars, scanVars, dashVars, paperVars, runVars>>

\* ------------------------------------------------- range parser: inputs
\* The pieces the texts are drawn from.
Chunks ==
  { <<"1", "0">>, <<"1", "2">>, <<"3", ".", "5">>,
    <<"2", "0", "2", "5">>, <<"2", "0", "2", "6">>, <<"2", "6">>,
    <<"$", "1", "0", "k">>, <<"1", "2", "%">>,
    <<"-">>, <<" ", "-", " ">>, <<"endash">>, <<" ", "t", "o", " ">>,
    <<"X", " ">>, <<" ", "s", "e", "a", "s", "o", "n">>,
    <<"b", "e", "t", "w", "e", "e", "n", " ">>, <<" ", "a", "n", "d", " ">> }

\* Whole titles: those of the repository's tests and documentation.
CpiTitle == <<"C", "P", "I", " ", "3", ".", "0", "endash", "3", ".", "5", "%", " ", "(", "J", "a", "n", " ", "2", "0", "2", "6", ")">>

Titles ==
  { CpiTitle, <<"W", "i", "l", "l", " ", "C", "P", "I", " ", "b", "e", " ", "3", ".", "0", "endash", "3", ".", "5", "%", " ", "i", "n", " ", "J", "a", "n", "?">>, <<"1", "2", " ", "emdash", " ", "1", "4">>, <<"3", ".", "0", " ", "t", "o", " ", "3", ".", "5">>,
    <<"2", "0", "2", "5", "endash", "2", "6", " ", "s", "e", "a", "s", "o", "n">>, <<"b", "e", "t", "w", "e", "e", "n", " ", "2", "0", "2", "5", " ", "a", "n", "d", " ", "2", "0", "2", "6", " ", "o", "r", " ", "1", "0", "-", "1", "2">>, <<"1", "0", "-", "1", "0", " ", "X">> }

\* nothing handed to the parser yet: the results are those of the empty text
ParseIdle ==
  /\ text = <<>>
  /\ ntoks = 0
  /\ ranged = NoRange
  /\ parsed = NoResult
  /\ grouped = [base |-> <<>>, range |-> NoRange]

\* the texts drawn write a number with at most one fraction digit, which is
\* what the fixed-point values (tenths) hold exactly
OneFractionDigit(s) ==
  \A i \in 1..Len(s) :
    s[i] = "." /\ At(s, i + 1) \in Digits => At(s, i + 2) \notin Digits

\* a caller hands the text, extended by one piece, to the parser
ParseText(c) ==
  /\ ntoks < MaxToks
  /\ ntoks' = ntoks + 1
  /\ text' = text \o c
  /\ OneFractionDigit(text')
  /\ ranged' = parseRangeFromText(text')
  /\ parsed' = parseRangeWithConfidence(text')
  /\ grouped' = removeFirstRangeForGrouping(text')
  /\ UNCHANGED <<normVars, scanVars, dashVars, paperVars, runVars>>

\* a caller hands a whole title to the parser
ParseTitle(t) ==
  /\ ntoks = 0
  /\ ntoks' = MaxToks
  /\ text' = t
  /\ ranged' = parseRangeFromText(text')
  /\ parsed' = parseRangeWithConfidence(text')
  /\ grouped' = removeFirstRangeForGrouping(text')
  /\ UNCHANGED <<normVars, scanVars, dashVars, paperVars, runVars>>

ParseNext ==
  \/ \E c \in Chunks : ParseText(c)
  \/ \E t \in Titles : ParseTitle(t)

\* --------------------------------------------------- normalizer: inputs
RawDefault ==
  [id |-> Undef, market_id |-> Undef, conditionId |-> Undef, condition_id |-> Undef,
   question |-> Undef, title |-> Undef, name |-> Undef, slug |-> Undef,
   event_id |-> Undef, eventId |-> Undef, events0id |-> Undef,
   outcomes |-> NoList, outcomePrices |-> NoList, outcome_prices |-> NoList,
   liquidityNum |-> Undef, liquidity |-> Undef, liquidityClob |-> Undef,
   volumeNum |-> Undef, volume |-> Undef, volumeClob |-> Undef]

YesNo == << Str(<<"Y", "e", "s">>), Str(<<"N", "o">>) >>

\* records that differ in their identifier aliases
IdRecords ==
  { [RawDefault EXCEPT !.id = i, !.market_id = j, !.conditionId = c,
                       !.outcomes = Arr(YesNo),
                       !.outcomePrices = Arr(<<NumV(120), NumV(880)>>)] :
      i \in {Undef, Str(<<"a">>), Str(<<" ", "a", " ">>), Str(<<>>), NumV(Thousandths(7))},
      j \in {Undef, Str(<<"7">>)},
      c \in {Undef, Str(<<"c">>)} }
  \cup { [RawDefault EXCEPT !.condition_id = Str(<<"d">>), !.slug = Str(<<"s">>)] }

OutcomeLists ==
  { NoList, Arr(YesNo), BadJson, JsonOther,
    Json(<< Str(<<"U", "p">>), Str(<<" ", "Y", "E", "S">>), Str(<<"U", "p">>) >>),
    Arr(<< Str(<<"A">>), NumV(Thousandths(1)) >>) }

PriceLists ==
  { NoList, BadJson,
    Arr(<<NumV(120), NumV(880)>>),
    Arr(<<Str(<<"a", "b", "c">>), Undef>>),
    Json(<<Str(<<"0", ".", "5">>), Str(<<>>), Undef, NumV(-250)>>),
    Json(<<Undef, Str(<<"1", "2", "x">>), Str(<<" ", "0", ".", "1", "2", "5">>)>>),
    Arr(<<NumV(999)>>) }

\* records that differ in their outcome and price lists
PriceRecords ==
  { [RawDefault EXCEPT !.id = Str(<<"p">>), !.question = Str(<<"Q", " ">>),
                       !.outcomes = o, !.outcomePrices = p] :
      o \in OutcomeLists, p \in PriceLists }
  \cup { [RawDefault EXCEPT !.id = Str(<<"q">>), !.outcomes = Arr(YesNo),
                            !.outcome_prices = Json(<<Str(<<"0", ".", "3">>)>>),
                            !.event_id = NumV(Thousandths(12)),
                            !.liquidity = l, !.volumeNum = NumV(Thousandths(5)),
                            !.volume = Str(<<"x">>)] :
           l \in {Str(<<"5", "0", "0">>), Str(<<"n", "a">>), NumV(Thousandths(-5))} }

RawMenu == IdRecords \cup PriceRecords

\* nothing normalized yet: the result is that of the empty batch
NormIdle ==
  /\ raw = <<>>
  /\ nphase = "collect"
  /\ nout = [markets |-> <<>>,
             stats |-> [inputMarkets |-> 0, keptMarkets |-> 0, marketsWithOutcomes |-> 0,
                        marketsWithPrices |-> 0, binaryMarkets |-> 0, multiOutcomeMarkets |-> 0]]

\* the fetch hands one more raw record to the batch
AddRaw(rec) ==
  /\ nphase = "collect"
  /\ Len(raw) < MaxBatch
  /\ raw' = Append(raw, rec)
  /\ UNCHANGED <<nphase, nout>>
  /\ UNCHANGED <<parseVars, scanVars, dashVars, paperVars, runVars>>

\* the scan normalizes the batch
Normalize ==
  /\ nphase = "collect"
  /\ nout' = normalizeGammaMarkets(raw)
  /\ nphase' = "normalized"
  /\ raw' = inputAfterNormalize(raw)
  /\ UNCHANGED <<parseVars, scanVars, dashVars, paperVars, runVars>>

NormNext ==
  \/ \E rec \in RawMenu : AddRaw(rec)
  \/ Normalize

\* --------------------------------------------------------- scan: inputs
\* A market of the batch is what normalizeGammaMarkets makes of a raw record.
PriceList(yes, no) == Json(<<Str(yes), Str(no)>>)

RawMarket(pos, title, outcomes, priceList, liq) ==
  [RawDefault EXCEPT !.id = Str(<<"m">> \o NatChars(pos)),
                     !.question = Str(title),
                     !.outcomes = Arr(outcomes),
                     !.outcomePrices = priceList,
                     !.liquidity = liq]

Fair == PriceList(<<"0", ".", "1", "2">>, <<"0", ".", "8", "8">>)

\* the title "X lo-hi%"
LadderTitle(lo, hi) == <<"X", " ">> \o NatChars(lo) \o <<"-">> \o NatChars(hi) \o <<"%">>

ThreeWay == << Str(<<"A">>), Str(<<"B">>), Str(<<"C">>) >>

\* the titles a free batch draws from
FamTitles ==
  { <<"X", " ", "1", " ", "-", " ", "2", "%">>, <<"X", " ", "2", " ", "-", " ", "3", "%">>, <<"X", " ", "1", " ", "-", " ", "3", "%">>, <<"X", " ", "1", "-", "2", "%">>, <<"X", " ", "$", "1", " ", "-", " ", "$", "2">>, <<"X", " ", "$", "2", " ", "-", " ", "$", "3">>,
    <<"Y", " ", "1", " ", "-", " ", "2", "%">>, <<"P", "l", "a", "i", "n">> }

\* a market whose title parses with confidence 0, carrying liquidity and volume
LowConfidence(pos) ==
  [RawMarket(pos, <<"X", " ", "1", " ", "-", " ", "9", "0", "0", "%", " ", "5">>, YesNo, Fair,
             Str(<<"6", "0", "0">>))
     EXCEPT !.volumeNum = NumV(Thousandths(5))]

FamMenu(pos) ==
  { RawMarket(pos, t, YesNo, Fair, Undef) : t \in FamTitles }
  \cup { LowConfidence(pos) }
  \cup { [RawMarket(pos, t, YesNo, Fair, Undef) EXCEPT !.event_id = Str(<<"e">>)] :
           t \in { <<"X", " ", "1", " ", "-", " ", "2", "%">>, <<"X", " ", "2", " ", "-", " ", "3", "%">> } }
  \cup { RawMarket(pos, <<"X", " ", "3", " ", "-", " ", "4", "%">>, ThreeWay,
                   Json(<<Str(<<"0", ".", "5">>), Str(<<"0", ".", "3">>), Str(<<"0", ".", "1">>)>>), Undef) }

\* the ways a market of a ladder batch is drawn
Variants ==
  { "plain", "gap", "overlap", "p30", "pbad", "liq600", "liq100", "liqneg", "multi" }

OnLadder(v) == v # "multi"

\* the upper endpoint of the title drawn after rung r
NextRung(v, r) == IF v = "gap" THEN r + 2 ELSE IF OnLadder(v) THEN r + 1 ELSE r

FourWay == << Str(<<"A">>), Str(<<"B">>), Str(<<"C">>), Str(<<"D">>) >>

\* a price list without a usable yes price: absent at odd positions, out of
\* range at even ones
BadPrices(pos) == IF pos % 2 = 1 THEN NoList ELSE PriceList(<<"1", ".", "5">>, <<"-", "0", ".", "5">>)

\* a market with three outcomes at odd positions, with four at even ones, the
\* fourth priced out of range
MultiRaw(pos) ==
  IF pos % 2 = 1
  THEN RawMarket(pos, <<"W", "h", "o">>, ThreeWay,
                 Json(<<Str(<<"0", ".", "5">>), Str(<<"0", ".", "3">>), Str(<<"0", ".", "1">>)>>), Undef)
  ELSE RawMarket(pos, <<"W", "h", "o">>, FourWay,
                 Json(<<Str(<<"0", ".", "5">>), Str(<<"0", ".", "3">>), Str(<<"0", ".", "1">>), Str(<<"1", ".", "5">>)>>), Undef)

LadderRaw(pos, v, r) ==
  CASE v = "plain" -> RawMarket(pos, LadderTitle(r, r + 1), YesNo, Fair, Undef)
    [] v = "gap" -> RawMarket(pos, LadderTitle(r + 1, r + 2), YesNo, Fair, Undef)
    [] v = "overlap" -> RawMarket(pos, LadderTitle(r - 1, r + 1), YesNo, Fair, Undef)
    [] v = "p30" -> RawMarket(pos, LadderTitle(r, r + 1), YesNo, PriceList(<<"0", ".", "3">>, <<"0", ".", "7">>), Undef)
    [] v = "pbad" -> RawMarket(pos, LadderTitle(r, r + 1), YesNo, BadPrices(pos), Undef)
    [] v = "liq600" -> RawMarket(pos, LadderTitle(r, r + 1), YesNo, Fair, Str(<<"6", "0", "0">>))
    [] v = "liq100" -> RawMarket(pos, LadderTitle(r, r + 1), YesNo, Fair, NumV(Thousandths(100)))
    [] v = "liqneg" -> RawMarket(pos, LadderTitle(r, r + 1), YesNo, Fair, Str(<<"-", "5">>))
    [] v = "multi" -> MultiRaw(pos)

ScanIdle ==
  /\ markets = <<>>
  /\ rung = 0
  /\ odd = 0
  /\ sphase = "collect"
  /\ families = <<>>
  /\ scored = <<>>
  /\ ranked = <<>>

\* one more market of a free batch
AddMarket(rec) ==
  /\ sphase = "collect"
  /\ Len(markets) < MaxFamBatch
  /\ markets' = Append(markets, normalizeOne(rec))
  /\ UNCHANGED <<rung, odd, sphase, families, scored, ranked>>
  /\ UNCHANGED <<parseVars, normVars, dashVars, paperVars, runVars>>

\* one more market of a ladder batch: only the first OddPrefix markets, and at
\* most MaxOdd of them, depart from the plain ladder
AddLadder(v) ==
  /\ sphase = "collect"
  /\ Len(markets) < MaxMarkets
  /\ v # "plain" => Len(markets) < OddPrefix /\ odd < MaxOdd
  /\ v = "overlap" => rung >= 1
  /\ markets' = Append(markets, normalizeOne(LadderRaw(Len(markets) + 1, v, rung)))
  /\ rung' = NextRung(v, rung)
  /\ odd' = IF v = "plain" THEN odd ELSE odd + 1
  /\ UNCHANGED <<sphase, families, scored, ranked>>
  /\ UNCHANGED <<parseVars, normVars, dashVars, paperVars, runVars>>

BuildFamilies ==
  /\ sphase = "collect"
  /\ families' = buildFamilies(markets)
  /\ sphase' = "built"
  /\ markets' = inputAfterBuild(markets)
  /\ UNCHANGED <<rung, odd, scored, ranked>>
  /\ UNCHANGED <<parseVars, normVars, dashVars, paperVars, runVars>>

ScoreFamilies ==
  /\ sphase = "built"
  /\ scored' = scoreFamilies(families)
  /\ sphase' = "scored"
  /\ families' = inputAfterScore(families)
  /\ UNCHANGED <<markets, rung, odd, ranked>>
  /\ UNCHANGED <<parseVars, normVars, dashVars, paperVars, runVars>>

RankFamilies ==
  /\ sphase = "scored"
  /\ ranked' = rankFamilies(scored)
  /\ sphase' = "ranked"
  /\ scored' = inputAfterRank(scored)
  /\ UNCHANGED <<markets, rung, odd, families>>
  /\ UNCHANGED <<parseVars, normVars, dashVars, paperVars, runVars>>

\* the fetch hands one more raw record of a ladder batch to the scan
FetchLadder(v) ==
  /\ nphase = "collect"
  /\ Len(raw) < MaxMarkets
  /\ v # "plain" => Len(raw) < OddPrefix /\ odd < MaxOdd
  /\ v = "overlap" => rung >= 1
  /\ raw' = Append(raw, LadderRaw(Len(raw) + 1, v, rung))
  /\ rung' = NextRung(v, rung)
  /\ odd' = IF v = "plain" THEN odd ELSE odd + 1
  /\ UNCHANGED <<nphase, nout, markets, sphase, families, scored, ranked>>
  /\ UNCHANGED <<parseVars, dashVars, paperVars, runVars>>

\* the scan builds the families of the normalized markets
BuildNormalized ==
  /\ nphase = "normalized"
  /\ sphase = "collect"
  /\ families' = buildFamilies(nout.markets)
  /\ sphase' = "built"
  /\ nout' = [nout EXCEPT !.markets = inputAfterBuild(nout.markets)]
  /\ UNCHANGED <<raw, nphase, markets, rung, odd, scored, ranked>>
  /\ UNCHANGED <<parseVars, dashVars, paperVars, runVars>>

ScanNext ==
  \/ \E v \in Variants : FetchLadder(v)
  \/ Normalize
  \/ BuildNormalized
  \/ ScoreFamilies
  \/ RankFamilies

FamNext ==
  \/ \E rec \in FamMenu(Len(markets) + 1) : AddMarket(rec)
  \/ BuildFamilies
  \/ ScoreFamilies
  \/ RankFamilies

RankNext ==
  \/ \E v \in Variants : AddLadder(v)
  \/ BuildFamilies
  \/ ScoreFamilies
  \/ RankFamilies

\* -------------------------------------------------- dash forms: inputs
\* The numbers written: small ones, a decimal, a negative one and year-like ones.
PairNumbers == {-50, 0, 35, 100, 120, 140, 260, 1000, 19500, 20250, 21000}

Separators == {"-"} \cup DashVariants

\* "A-B" with the given separator, with or without spaces around it
DashText(a, b, sep, spaced) ==
  NumChars(a) \o (IF spaced THEN <<" ", sep, " ">> ELSE <<sep>>) \o NumChars(b)

DashIdle ==
  /\ dpair = <<>>
  /\ dform = [sep |-> "-", spaced |-> FALSE]
  /\ dashed = NoRange

\* a caller hands "A-B", written in one of the forms, to parseRangeFromText;
\* a pair once chosen is only written again in other forms
ParseDashed(a, b, sep, spaced) ==
  /\ a # b
  /\ dpair \in {<<>>, <<a, b>>}
  /\ dpair' = <<a, b>>
  /\ dform' = [sep |-> sep, spaced |-> spaced]
  /\ dashed' = parseRangeFromText(DashText(a, b, sep, spaced))
  /\ UNCHANGED <<parseVars, normVars, scanVars, paperVars, runVars>>

DashNext ==
  \E a, b \in PairNumbers, sep \in Separators, spaced \in BOOLEAN :
    ParseDashed(a, b, sep, spaced)

\* ----------------------------------------------- paper trading: inputs
\* A scan's markets: a ladder "X" of binary markets priced p each, with or
\* without a fully priced window, a second ladder "Y", a three-way market and a
\* plain binary market.
ScanKinds == {"cluster", "nocluster"}

ScanPrices == {100, 120, 150}

\* the hours between two scans
Waits == {1, 6, 24}

PriceChars(p) ==
  CASE p = 100 -> PriceList(<<"0", ".", "1">>, <<"0", ".", "9">>)
    [] p = 120 -> PriceList(<<"0", ".", "1", "2">>, <<"0", ".", "8", "8">>)
    [] p = 150 -> PriceList(<<"0", ".", "1", "5">>, <<"0", ".", "8", "5">>)

SecondTitle(lo, hi) == <<"Y", " ">> \o NatChars(lo) \o <<"-">> \o NatChars(hi) \o <<"%">>

ScanBatch(k, p) ==
  IF k = "cluster"
  THEN [i \in 1..8 |-> RawMarket(i, LadderTitle(i - 1, i), YesNo, PriceChars(p), Undef)]
       \o [i \in 1..6 |-> RawMarket(8 + i, SecondTitle(i - 1, i), YesNo, PriceChars(p), Undef)]
       \o << MultiRaw(15), RawMarket(16, <<"P", "l", "a", "i", "n">>, YesNo, PriceChars(p), Undef) >>
  ELSE [i \in 1..7 |->
          RawMarket(i, LadderTitle(i - 1, i), YesNo,
                    IF i = 4 THEN BadPrices(i) ELSE PriceChars(p),
                    IF i = 1 THEN Str(<<"6", "0", "0">>) ELSE Undef)]
       \o << MultiRaw(9), RawMarket(10, <<"P", "l", "a", "i", "n">>, YesNo, PriceChars(p), Undef) >>

\* what a scan of the batch writes: families.json and prices_raw.json
ScanOutputs ==
  [k \in ScanKinds, p \in ScanPrices |->
     Let(normalizeGammaMarkets(ScanBatch(k, p)).markets, LAMBDA normalized :
       [families |-> rankFamilies(scoreFamilies(buildFamilies(normalized))),
        snap |-> fetchPrices(normalized)])]

PaperIdle ==
  /\ pfamilies = <<>>
  /\ psnap = <<>>
  /\ pstate = NoState
  /\ pevents = <<>>
  /\ ptrades = <<>>
  /\ pnow = 0
  /\ pnext = 0
  /\ pphase = "idle"
  /\ pscans = 0

\* the cash of a state file that a run finds before the first scan
SeedCash == {Cents(10)}

\* paper_state.json is there before the first scan: version 1, cash c, nothing open
SeedState(c) ==
  /\ pphase = "idle"
  /\ pstate = NoState
  /\ pstate' = [defaultState EXCEPT !.bankrollCashUsd = c]
  /\ UNCHANGED <<pfamilies, psnap, pevents, ptrades, pnow, pnext, pphase, pscans>>
  /\ UNCHANGED <<parseVars, normVars, scanVars, dashVars, runVars>>

\* a scan, d hours after the last one, writes its families and prices
WriteScan(k, p, d) ==
  /\ pscans < MaxScans
  /\ pscans' = pscans + 1
  /\ pnow' = pnow + d
  /\ pfamilies' = ScanOutputs[k, p].families
  /\ psnap' = ScanOutputs[k, p].snap
  /\ pphase' = "scanned"
  /\ UNCHANGED <<pstate, pevents, ptrades, pnext>>
  /\ UNCHANGED <<parseVars, normVars, scanVars, dashVars, runVars>>

\* the scan's optional paper-trading step
RunPaperTrade ==
  /\ pphase = "scanned"
  /\ Let(runPaperTrade(pstate, pfamilies, psnap, pnow, pnext), LAMBDA run :
       /\ pstate' = run.state
       /\ pevents' = run.events
       /\ ptrades' = ptrades \o run.events
       /\ pnext' = run.nextId)
  /\ pphase' = "traded"
  /\ UNCHANGED <<pfamilies, psnap, pnow, pscans>>
  /\ UNCHANGED <<parseVars, normVars, scanVars, dashVars, runVars>>

PaperNext ==
  \/ \E c \in SeedCash : SeedState(c)
  \/ \E k \in ScanKinds, p \in ScanPrices, d \in Waits : WriteScan(k, p, d)
  \/ RunPaperTrade

\* --------------------------------------------------- fetchMarkets: steps
LimitEnv == {EnvUnset, EnvNum(10), EnvNum(20)}

PageEnv == {EnvUnset, EnvText, EnvNum(0), EnvNum(10), EnvNum(25), EnvNum(30)}

MarketsEnv == {EnvUnset, EnvText, EnvNum(-10), EnvNum(5), EnvNum(20), EnvNum(30)}

\* the lengths of an answer: empty, one short of a page, a page, one more
PageSizes(limit) == {0, limit - 1, limit, limit + 1}

FetchIdle ==
  /\ fenv = [GAMMA_LIMIT |-> EnvUnset, GAMMA_PAGE_LIMIT |-> EnvUnset, MAX_MARKETS |-> EnvUnset]
  /\ gammaLimit = defaultGammaLimit
  /\ gammaPageLimit = Null
  /\ maxMarkets = Null
  /\ rawMarkets = <<>>
  /\ pagesFetched = 0
  /\ stopReason = <<"unknown">>
  /\ requests = <<>>
  /\ rawFile = <<>>
  /\ fphase = "idle"

\* fetchMarkets is called: the environment is read
StartFetch(eL, eP, eM) ==
  /\ fphase # "loop"
  /\ fenv' = [GAMMA_LIMIT |-> eL, GAMMA_PAGE_LIMIT |-> eP, MAX_MARKETS |-> eM]
  /\ gammaLimit' = envIntOr(eL, defaultGammaLimit, minEnvInt, maxPageEnv)
  /\ gammaPageLimit' = envIntOpt(eP, minEnvInt, maxPageEnv)
  /\ maxMarkets' = envIntOpt(eM, minEnvInt, maxMarketsEnv)
  /\ rawMarkets' = <<>>
  /\ pagesFetched' = 0
  /\ stopReason' = <<"unknown">>
  /\ requests' = <<>>
  /\ fphase' = "loop"
  /\ UNCHANGED rawFile
  /\ UNCHANGED <<parseVars, normVars, scanVars, dashVars, paperVars, logVars, mainVars>>

\* an iteration that stops at a cap; the markets are stored and returned
StopAtCap ==
  /\ fphase = "loop"
  /\ capStop(gammaPageLimit, maxMarkets, rawMarkets, pagesFetched) # <<>>
  /\ stopReason' = capStop(gammaPageLimit, maxMarkets, rawMarkets, pagesFetched)
  /\ rawFile' = rawMarkets
  /\ fphase' = "done"
  /\ UNCHANGED <<fenv, gammaLimit, gammaPageLimit, maxMarkets, rawMarkets, pagesFetched, requests>>
  /\ UNCHANGED <<parseVars, normVars, scanVars, dashVars, paperVars, logVars, mainVars>>

\* an iteration that requests a page and gets n markets
FetchPage(n) ==
  /\ fphase = "loop"
  /\ capStop(gammaPageLimit, maxMarkets, rawMarkets, pagesFetched) = <<>>
  /\ pagesFetched < MaxPages
  /\ n >= 0
  /\ Let(afterPage(gammaLimit, maxMarkets, rawMarkets, [i \in 1..n |-> pagesFetched]),
         LAMBDA r :
           /\ rawMarkets' = r.raw
           /\ stopReason' = IF r.stop = <<>> THEN stopReason ELSE r.stop
           /\ fphase' = IF r.stop = <<>> THEN "loop" ELSE "done"
           /\ rawFile' = IF r.stop = <<>> THEN rawFile ELSE r.raw)
  /\ pagesFetched' = pagesFetched + 1
  /\ requests' = Append(requests, [offset |-> pagesFetched * gammaLimit, len |-> n])
  /\ UNCHANGED <<fenv, gammaLimit, gammaPageLimit, maxMarkets>>
  /\ UNCHANGED <<parseVars, normVars, scanVars, dashVars, paperVars, logVars, mainVars>>

\* an iteration whose request fails: fetchMarkets rejects
FetchThrows ==
  /\ fphase = "loop"
  /\ capStop(gammaPageLimit, maxMarkets, rawMarkets, pagesFetched) = <<>>
  /\ pagesFetched < MaxPages
  /\ fphase' = "threw"
  /\ pagesFetched' = pagesFetched + 1
  /\ requests' = Append(requests, [offset |-> pagesFetched * gammaLimit, len |-> 0])
  /\ UNCHANGED <<fenv, gammaLimit, gammaPageLimit, maxMarkets, rawMarkets, stopReason, rawFile>>
  /\ UNCHANGED <<parseVars, normVars, scanVars, dashVars, paperVars, logVars, mainVars>>

FetchLoop ==
  \/ StopAtCap
  \/ \E n \in PageSizes(gammaLimit) : FetchPage(n)
  \/ FetchThrows

FetchNext ==
  \/ \E eL \in LimitEnv, eP \in PageEnv, eM \in MarketsEnv : StartFetch(eL, eP, eM)
  \/ StopAtCap
  \/ \E n \in PageSizes(gammaLimit) : FetchPage(n)
  \/ FetchThrows

\* ---------------------------------------------------- file logger: steps
Levels == {"INFO", "WARN", "ERROR"}

LogIdle ==
  /\ lines = <<>>
  /\ chain = <<>>
  /\ logFile = <<>>
  /\ flushes = <<>>

\* info, warn or error is called: the line is chained, nothing is awaited
Write(level) ==
  /\ Len(lines) < MaxLines
  /\ lines' = Append(lines, logLine(level, Len(lines) + 1))
  /\ chain' = Append(chain, "pending")
  /\ UNCHANGED <<logFile, flushes>>
  /\ UNCHANGED <<parseVars, normVars, scanVars, dashVars, paperVars, fetchVars, mainVars>>

\* the promise before link k is fulfilled: its callback calls appendFile
StartAppend(k) ==
  /\ chain[k] = "pending"
  /\ linkBefore(chain, k) = "fulfilled"
  /\ chain' = [chain EXCEPT ![k] = "appending"]
  /\ UNCHANGED <<lines, logFile, flushes>>
  /\ UNCHANGED <<parseVars, normVars, scanVars, dashVars, paperVars, fetchVars, mainVars>>

\* appendFile of link k has written its line
AppendDone(k) ==
  /\ chain[k] = "appending"
  /\ logFile' = Append(logFile, lines[k])
  /\ chain' = [chain EXCEPT ![k] = "fulfilled"]
  /\ UNCHANGED <<lines, flushes>>
  /\ UNCHANGED <<parseVars, normVars, scanVars, dashVars, paperVars, fetchVars, mainVars>>

\* appendFile of link k fails
AppendFails(k) ==
  /\ chain[k] = "appending"
  /\ chain' = [chain EXCEPT ![k] = "rejected"]
  /\ UNCHANGED <<lines, logFile, flushes>>
  /\ UNCHANGED <<parseVars, normVars, scanVars, dashVars, paperVars, fetchVars, mainVars>>

\* the promise before link k is rejected: the callback is not called
SkipAppend(k) ==
  /\ chain[k] = "pending"
  /\ linkBefore(chain, k) = "rejected"
  /\ chain' = [chain EXCEPT ![k] = "rejected"]
  /\ UNCHANGED <<lines, logFile, flushes>>
  /\ UNCHANGED <<parseVars, normVars, scanVars, dashVars, paperVars, fetchVars, mainVars>>

\* flush is called: it awaits the chain as it is now
Flush ==
  /\ Len(flushes) < MaxFlushes
  /\ flushes' = Append(flushes, [upto |-> Len(chain), state |-> "pending"])
  /\ UNCHANGED <<lines, chain, logFile>>
  /\ UNCHANGED <<parseVars, normVars, scanVars, dashVars, paperVars, fetchVars, mainVars>>

\* the promise flush j awaits has settled
FlushSettles(j) ==
  /\ flushes[j].state = "pending"
  /\ awaited(chain, flushes[j].upto) \in {"fulfilled", "rejected"}
  /\ flushes' = [flushes EXCEPT ![j].state = awaited(chain, flushes[j].upto)]
  /\ UNCHANGED <<lines, chain, logFile>>
  /\ UNCHANGED <<parseVars, normVars, scanVars, dashVars, paperVars, fetchVars, mainVars>>

LogNext ==
  \/ \E level \in Levels : Write(level)
  \/ \E k \in 1..Len(chain) : StartAppend(k)
  \/ \E k \in 1..Len(chain) : AppendDone(k)
  \/ \E k \in 1..Len(chain) : AppendFails(k)
  \/ \E k \in 1..Len(chain) : SkipAppend(k)
  \/ Flush
  \/ \E j \in 1..Len(flushes) : FlushSettles(j)

\* ------------------------------------------------------- scan run: steps
NoCounts == [raw |-> 0, parsed |-> 0, normalized |-> 0, families |-> 0]

NoFiles ==
  [markets_raw |-> 0, prices_raw |-> 0, families |-> 0, last_scan |-> 0,
   paper_state |-> 0, dashboard |-> 0]

MainIdle ==
  /\ pc = "idle"
  /\ scanNo = 0
  /\ exitCode = 0
  /\ counts = NoCounts
  /\ paperTrade = FALSE
  /\ rowsFile = <<>>
  /\ outFiles = NoFiles

\* npm run scan:once starts main
StartScan(paper) ==
  /\ pc \in {"idle", "exited"}
  /\ scanNo < MaxRuns
  /\ scanNo' = scanNo + 1
  /\ pc' = "logger"
  /\ exitCode' = 0
  /\ counts' = NoCounts
  /\ paperTrade' = paper
  /\ UNCHANGED <<rowsFile, outFiles>>
  /\ UNCHANGED <<parseVars, normVars, scanVars, dashVars, paperVars, fetchVars, logVars>>

\* createFileLogger
CreateLogger ==
  /\ pc = "logger"
  /\ pc' = "fetch"
  /\ UNCHANGED <<scanNo, exitCode, counts, paperTrade, rowsFile, outFiles>>
  /\ UNCHANGED <<parseVars, normVars, scanVars, dashVars, paperVars, fetchVars, logVars>>

\* fetchMarkets returns r raw markets, p of them parsed; zero of either is fatal
ScanFetch(r, p, logged) ==
  /\ pc = "fetch"
  /\ p <= r
  /\ counts' = [counts EXCEPT !.raw = r, !.parsed = p]
  /\ outFiles' = [outFiles EXCEPT !.markets_raw = scanNo]
  /\ IF zeroMarkets(r, p)
       THEN pc' = "exited" /\ exitCode' = fatalExit(2, logged)
       ELSE pc' = "prices" /\ UNCHANGED exitCode
  /\ UNCHANGED <<scanNo, paperTrade, rowsFile>>
  /\ UNCHANGED <<parseVars, normVars, scanVars, dashVars, paperVars, fetchVars, logVars>>

\* normalizeGammaMarkets keeps k markets; fetchPrices writes prices_raw.json
FetchPrices(k) ==
  /\ pc = "prices"
  /\ k <= counts.parsed
  /\ counts' = [counts EXCEPT !.normalized = k]
  /\ outFiles' = [outFiles EXCEPT !.prices_raw = scanNo]
  /\ pc' = "build"
  /\ UNCHANGED <<scanNo, exitCode, paperTrade, rowsFile>>
  /\ UNCHANGED <<parseVars, normVars, scanVars, dashVars, paperVars, fetchVars, logVars>>

\* buildFamilies gives n families; zero is fatal
ScanBuild(n, logged) ==
  /\ pc = "build"
  /\ n <= counts.normalized
  /\ counts' = [counts EXCEPT !.families = n]
  /\ IF n = 0
       THEN pc' = "exited" /\ exitCode' = fatalExit(3, logged)
       ELSE pc' = "rows" /\ UNCHANGED exitCode
  /\ UNCHANGED <<scanNo, paperTrade, rowsFile, outFiles>>
  /\ UNCHANGED <<parseVars, normVars, scanVars, dashVars, paperVars, fetchVars, logVars>>

\* scoreFamilies, rankFamilies, appendFamilyRows
AppendRows ==
  /\ pc = "rows"
  /\ rowsFile' = Append(rowsFile, scanNo)
  /\ pc' = "families"
  /\ UNCHANGED <<scanNo, exitCode, counts, paperTrade, outFiles>>
  /\ UNCHANGED <<parseVars, normVars, scanVars, dashVars, paperVars, fetchVars, logVars>>

\* writeJsonFile(data/out/families.json)
WriteFamilies ==
  /\ pc = "families"
  /\ outFiles' = [outFiles EXCEPT !.families = scanNo]
  /\ pc' = "heartbeat"
  /\ UNCHANGED <<scanNo, exitCode, counts, paperTrade, rowsFile>>
  /\ UNCHANGED <<parseVars, normVars, scanVars, dashVars, paperVars, fetchVars, logVars>>

\* writeHeartbeat
WriteHeartbeat ==
  /\ pc = "heartbeat"
  /\ outFiles' = [outFiles EXCEPT !.last_scan = scanNo]
  /\ pc' = "paper"
  /\ UNCHANGED <<scanNo, exitCode, counts, paperTrade, rowsFile>>
  /\ UNCHANGED <<parseVars, normVars, scanVars, dashVars, paperVars, fetchVars, logVars>>

\* the optional paper-trading step: an error of runPaperTrade is caught and
\* logged; an error of that log.warn is not
PaperStep(traded, logged) ==
  /\ pc = "paper"
  /\ outFiles' = IF paperTrade /\ traded THEN [outFiles EXCEPT !.paper_state = scanNo] ELSE outFiles
  /\ IF paperTrade /\ ~traded /\ ~logged
       THEN pc' = "exited" /\ exitCode' = 1
       ELSE pc' = "dashboard" /\ UNCHANGED exitCode
  /\ UNCHANGED <<scanNo, counts, paperTrade, rowsFile>>
  /\ UNCHANGED <<parseVars, normVars, scanVars, dashVars, paperVars, fetchVars, logVars>>

\* writeDashboard
WriteDashboard ==
  /\ pc = "dashboard"
  /\ outFiles' = [outFiles EXCEPT !.dashboard = scanNo]
  /\ pc' = "summary"
  /\ UNCHANGED <<scanNo, exitCode, counts, paperTrade, rowsFile>>
  /\ UNCHANGED <<parseVars, normVars, scanVars, dashVars, paperVars, fetchVars, logVars>>

\* log.info(summary), log.flush: main returns
LogSummary ==
  /\ pc = "summary"
  /\ pc' = "exited"
  /\ UNCHANGED <<scanNo, exitCode, counts, paperTrade, rowsFile, outFiles>>
  /\ UNCHANGED <<parseVars, normVars, scanVars, dashVars, paperVars, fetchVars, logVars>>

\* the awaited call of the step rejects: main().catch sets exit code 1
StepThrows ==
  /\ pc \in Awaiting
  /\ pc' = "exited"
  /\ exitCode' = 1
  /\ UNCHANGED <<scanNo, counts, paperTrade, rowsFile, outFiles>>
  /\ UNCHANGED <<parseVars, normVars, scanVars, dashVars, paperVars, fetchVars, logVars>>

MainNext ==
  \/ \E paper \in BOOLEAN : StartScan(paper)
  \/ CreateLogger
  \/ \E r \in 0..MaxFetched, p \in 0..MaxFetched, logged \in BOOLEAN : ScanFetch(r, p, logged)
  \/ \E k \in 0..MaxFetched : FetchPrices(k)
  \/ \E n \in 0..MaxFetched, logged \in BOOLEAN : ScanBuild(n, logged)
  \/ AppendRows
  \/ WriteFamilies
  \/ WriteHeartbeat
  \/ \E traded \in BOOLEAN, logged \in BOOLEAN : PaperStep(traded, logged)
  \/ WriteDashboard
  \/ LogSummary
  \/ StepThrows

RunIdle == FetchIdle /\ LogIdle /\ MainIdle

Idle == ParseIdle /\ NormIdle /\ ScanIdle /\ DashIdle /\ PaperIdle /\ RunIdle

SpecParse == Idle /\ [][ParseNext]_vars

SpecNorm == Idle /\ [][NormNext]_vars

SpecFam == Idle /\ [][FamNext]_vars

SpecRank == Idle /\ [][RankNext]_vars

SpecDash == Idle /\ [][DashNext]_vars

SpecScan == Idle /\ [][ScanNext]_vars

SpecPaper == Idle /\ [][PaperNext]_vars

SpecLog == Idle /\ [][LogNext]_vars

SpecMain == Idle /\ [][MainNext]_vars

\* every iteration of the loop completes: a request is answered or fails
SpecFetch == Idle /\ [][FetchNext]_vars /\ WF_vars(FetchLoop)

\* ------------------------------------------------ range parser: claims
HasReason(res, tag) == \E i \in 1..Len(res.reasons) : res.reasons[i][1] = tag

\* the confidence before the extra-number penalty: +2 clean form, +1 sane span
BaseConfidence(res) ==
  (IF HasReason(res, "cleanRangeForm") THEN 2 ELSE 0)
  + (IF HasReason(res, "saneSpan") THEN 1 ELSE 0)

\* the number of numeric tokens of the text that are neither a year nor an endpoint
ExtraCount == countExtraNonYearNumbers(normalize(text), parsed.range)

\* C6, as claimed: the penalty is 2 for each extra numeric token (2*n for n of them).
C6_PenaltyScalesWithCount ==
  parsed.ok => parsed.confidence = BaseConfidence(parsed) - 2 * ExtraCount

\* C6, amended: the penalty is a flat 2 when the text has at least one extra
\* numeric token (whatever their number n) and 0 when it has none; reasons
\* reports extraNumbers(n) exactly when n >= 1.
C6_PenaltyFlat ==
  parsed.ok =>
    /\ parsed.confidence = BaseConfidence(parsed) - (IF ExtraCount >= 1 THEN 2 ELSE 0)
    /\ ExtraCount >= 1 =>
         \E i \in 1..Len(parsed.reasons) : parsed.reasons[i] = <<"extraNumbers", ExtraCount>>
    /\ ExtraCount = 0 => ~HasReason(parsed, "extraNumbers")

\* a parsed text with two or more extra numeric tokens
C6_Witness == parsed.ok /\ ExtraCount >= 2 /\ HasReason(parsed, "saneSpan")

\* the text's only digits are those of the two endpoint tokens of the dash match
OnlyEndpointNumbers ==
  LET t == normalize(text)
      m == dashRe(t)
      bs == m.me - Len(m.b)
      ae == m.ms + Len(m.a)
  IN /\ m.found /\ ~betweenRe(t).found
     /\ \A i \in 1..Len(t) : t[i] \in Digits => (i >= m.ms /\ i < ae) \/ (i >= bs /\ i < m.me)
     /\ \A i \in 1..Len(m.a) : m.a[i] # ","
     /\ \A i \in 1..Len(m.b) : m.b[i] # ","

\* C7: a text whose only numbers are the two endpoints of a clean range with a
\* sane span gets confidence 3: the endpoint tokens are never counted as extra.
C7_EndpointsNotExtra ==
  parsed.ok /\ OnlyEndpointNumbers /\ HasReason(parsed, "saneSpan") => parsed.confidence = 3

\* the match removeFirstRangeForGrouping works on: the "between" form when the
\* text has one, else the dash/"to" form
FirstMatch(t) == IF betweenRe(t).found THEN betweenRe(t) ELSE dashRe(t)

\* the first match parses to a range that the season/year guard rejects
GuardRejects ==
  Let(normalize(text), LAMBDA t :
  Let(FirstMatch(t), LAMBDA m :
  Let(IF m.found THEN parseRangeTokens(m.a, m.b) ELSE NoRange, LAMBDA r :
    r.ok /\ isLikelySeasonOrYearRange(t, r))))

\* C13, as claimed: when the parsed range is rejected by the season/year guard,
\* the base is the trimmed original text and there is no range.
C13_TrimmedOriginal ==
  GuardRejects => grouped.base = Trim(text) /\ ~grouped.range.ok

\* C13, amended: the function works on the normalized text (dash variants
\* replaced by "-", whitespace collapsed, trimmed) and on its first match, the
\* "between" form before the dash/"to" form. Without a match, or when the
\* match's range is rejected by the season/year guard, the base is the
\* normalized text and there is no range; otherwise the base is the normalized
\* text with the match replaced by a space, whitespace collapsed and trimmed,
\* together with the range of the match's tokens (none when they do not parse).
\* "CPI 3.0-3.5% (Jan 2026)" written with an en dash gives base
\* "CPI (Jan 2026)" and range 3-3.5%.
C13_NormalizedBase ==
  Let(normalize(text), LAMBDA t :
  Let(FirstMatch(t), LAMBDA m :
  Let(IF m.found THEN parseRangeTokens(m.a, m.b) ELSE NoRange, LAMBDA r :
    /\ ~m.found \/ GuardRejects => grouped = [base |-> t, range |-> NoRange]
    /\ m.found /\ ~GuardRejects =>
         /\ grouped.base = Trim(CollapseWs(Sub(t, 1, m.ms) \o <<" ">> \o Sub(t, m.me, Len(t) + 1)))
         /\ grouped.range = r
    /\ text = CpiTitle =>
         /\ grouped.base = <<"C", "P", "I", " ", "(", "J", "a", "n", " ", "2", "0", "2", "6", ")">>
         /\ grouped.range = [ok |-> TRUE, low |-> 30, high |-> 35, unit |-> "%",
                              normalizedLabel |-> <<"3", "-", "3", ".", "5", "%">>])))

\* a guard-rejected text written with a dash variant: the base is not the
\* trimmed original
C13_Witness == GuardRejects /\ grouped.base # Trim(text) /\ ~grouped.range.ok

\* the ranges of the text's matches, in the order the patterns are tried
MatchedRanges ==
  Let(normalize(text), LAMBDA t :
  Let(betweenRe(t), LAMBDA mb :
  Let(dashRe(t), LAMBDA md :
    SelectSeq(<<IF mb.found THEN parseRangeTokens(mb.a, mb.b) ELSE NoRange,
                IF md.found THEN parseRangeTokens(md.a, md.b) ELSE NoRange>>,
              LAMBDA r : r.ok))))

\* the three conditions of the season/year guard on a range of the text
YearLike(r) ==
  LET t == LowerText(normalize(text))
  IN \/ r.low >= Tenths(1900) /\ r.low <= Tenths(2100)
        /\ r.high >= Tenths(1900) /\ r.high <= Tenths(2100)
     \/ Includes(t, <<"s", "e", "a", "s", "o", "n">>) /\ hasYear(t)
     \/ /\ hasYear(t)
        /\ \/ r.low >= Tenths(1900) /\ r.high < Tenths(100)
           \/ r.high >= Tenths(1900) /\ r.low < Tenths(100)

Member(id) ==
  BucketOutcome([marketId |-> id, yes_price |-> Null, liquidity |-> Absent, volume |-> Absent],
                parsed)

\* the groups the text can stand in: alone, or with a market of the same unit
Groups == { <<Member(<<"1">>)>>, <<Member(<<"1">>), Member(<<"2">>)>> }

\* C26: a result of parseRangeWithConfidence has a confidence of 0, 1, 2 or 3
\* and the reason "cleanRangeForm"; a member that passes the family filter has
\* no extra-number penalty, or has a sane span and got the modal-unit bonus.
C26_ConfidenceAndFilter ==
  parsed.ok =>
    /\ parsed.confidence \in 0..3
    /\ HasReason(parsed, "cleanRangeForm")
    /\ \A g \in Groups : \A j \in 1..Len(groupBuckets(g)) :
         \/ ~HasReason(parsed, "extraNumbers")
         \/ /\ HasReason(parsed, "saneSpan")
            /\ groupBuckets(g)[j].rangeParseConfidence = parsed.confidence + 1

\* a penalised text with a sane span: dropped alone, kept with the bonus
C26_Witness ==
  /\ parsed.ok
  /\ HasReason(parsed, "extraNumbers")
  /\ HasReason(parsed, "saneSpan")
  /\ parsed.confidence = 1
  /\ \E g \in Groups : Len(g) = 2 /\ Len(groupBuckets(g)) = 2
  /\ \E g \in Groups : Len(g) = 1 /\ Len(groupBuckets(g)) = 0

\* C25: whenever parseRangeFromText returns a range for a text,
\* removeFirstRangeForGrouping returns the same range for it, and a base from
\* which a substring has been removed.
C25_GroupingAgreesWithParsing ==
  ranged.ok =>
    /\ grouped.range = ranged
    /\ grouped.base # Trim(normalize(text))

\* -------------------------------------------------- dash forms: claims
\* the range of the two numbers written: low = min, high = max, label "low-high"
PairRange ==
  LET low == IF dpair[1] < dpair[2] THEN dpair[1] ELSE dpair[2]
      high == IF dpair[1] < dpair[2] THEN dpair[2] ELSE dpair[1]
  IN [ok |-> TRUE, low |-> low, high |-> high, unit |-> "",
      normalizedLabel |-> NumChars(low) \o <<"-">> \o NumChars(high)]

\* the number is written as a 4-digit year token 19xx or 20xx
YearToken(n) == Abs(n) \div 10 \in 1900..2099

\* the pair written looks like a year span: both numbers in [1900,2100], or a
\* 4-digit year token with one number >= 1900 and the other < 100
YearPair ==
  LET low == PairRange.low
      high == PairRange.high
  IN \/ low >= Tenths(1900) /\ high <= Tenths(2100)
     \/ /\ YearToken(low) \/ YearToken(high)
        /\ high >= Tenths(1900) /\ low < Tenths(100)

\* C15, as claimed: for any two distinct numbers, whatever the separator and
\* the spacing, the result is low = min, high = max, label "low-high".
C15_AnyPairAnyDash ==
  dpair # <<>> => dashed = PairRange

\* C15, amended: the result does not depend on the separator (ASCII hyphen,
\* figure dash, en dash, em dash, minus sign) nor on the spaces around it: it is
\* none when the pair looks like a year span (season/year guard), and otherwise
\* low = min(A,B), high = max(A,B), low < high, label "low-high".
C15_AnyDashSameRange ==
  dpair # <<>> =>
    /\ YearPair => dashed = NoRange
    /\ ~YearPair => dashed = PairRange /\ dashed.low < dashed.high

\* "12 - 14" written with a spaced em dash
C15_Witness ==
  /\ dpair = <<120, 140>> /\ dform = [sep |-> "emdash", spaced |-> TRUE]
  /\ dashed.ok /\ dashed.normalizedLabel = <<"1", "2", "-", "1", "4">>

\* --------------------------------------------------- normalizer: claims
Normalized == nphase = "normalized"

\* C8: every emitted market has a non-empty marketId and no two emitted
\* markets share a marketId.
C8_MarketIdsUnique ==
  Normalized =>
    /\ \A i \in 1..Len(nout.markets) : nout.markets[i].marketId # <<>>
    /\ \A i, j \in 1..Len(nout.markets) :
         i # j => nout.markets[i].marketId # nout.markets[j].marketId

\* the first identifier alias of the record that is a non-blank string or a
\* number, trimmed or stringified; <<>> when the record has none
DerivableId(m) ==
  LET ids == <<stringifyId(m.id), stringifyId(m.market_id),
               stringifyId(m.conditionId), stringifyId(m.condition_id)>>
      hits == {i \in 1..4 : ids[i] # <<>>}
  IN IF hits = {} THEN <<>> ELSE ids[SetMin(hits)]

\* C9: the emitted markets are, in input order, one for each input record from
\* which an identifier can be derived; inputMarkets counts every input record
\* and keptMarkets the emitted markets.
C9_OnePerIdentifiedRecord ==
  Normalized =>
    LET want == SelectSeq(raw, LAMBDA m : DerivableId(m) # <<>>)
    IN /\ Len(nout.markets) = Len(want)
       /\ \A i \in 1..Len(want) : nout.markets[i].marketId = DerivableId(want[i])
       /\ nout.stats.inputMarkets = Len(raw)
       /\ nout.stats.keptMarkets = Len(nout.markets)

\* C10: in every emitted market each element of outcomes has an entry in
\* prices, and the entry is a finite number or null.
C10_EveryOutcomePriced ==
  Normalized =>
    \A i \in 1..Len(nout.markets) :
      LET mk == nout.markets[i]
      IN \A j \in 1..Len(mk.outcomes) :
           /\ mk.outcomes[j] \in DOMAIN mk.prices
           /\ mk.prices[mk.outcomes[j]].k \in {"num", "null"}

\* an emitted market with more outcomes than parsed prices, one price being
\* unparseable and one outcome priced
C10_Witness ==
  /\ Normalized
  /\ \E i \in 1..Len(nout.markets) :
       LET mk == nout.markets[i]
       IN /\ Len(mk.outcomes) = 3
          /\ \E n \in DOMAIN mk.prices : mk.prices[n].k = "num"
          /\ \E n \in DOMAIN mk.prices : mk.prices[n].k = "null"
  /\ \E i \in 1..Len(raw) :
       /\ raw[i].outcomePrices.k = "json"
       /\ \E j \in 1..Len(raw[i].outcomePrices.items) :
            coerceNumber(raw[i].outcomePrices.items[j]).k = "null"

StatKeys ==
  {"inputMarkets", "keptMarkets", "marketsWithOutcomes", "marketsWithPrices",
   "binaryMarkets", "multiOutcomeMarkets"}

\* what normalizing record i of the batch alone gives
Alone(i) == normalizeGammaMarkets(<<raw[i]>>)

IsBucket(f) == f.family_type = "bucket"

Built == sphase \in {"built", "scored", "ranked"}

WasScored == sphase \in {"scored", "ranked"}

\* C1: every family returned by scoreFamilies has an opportunity_score that is
\* a number in [0, 1], never NaN.
C1_ScoreInUnitInterval ==
  WasScored =>
    \A i \in 1..Len(scored) :
      /\ scored[i].opportunity_score.k = "num"
      /\ scored[i].opportunity_score.v >= 0
      /\ scored[i].opportunity_score.v <= Micro(1)

\* C2 as stated: every bucket family has at least 2 members, each of adjusted
\* confidence >= 2, strictly ascending by range.low.
C2_StrictlyAscending ==
  Built =>
    \A i \in 1..Len(families) :
      IsBucket(families[i]) =>
        LET b == families[i].buckets
        IN /\ Len(b) >= 2
           /\ \A j \in 1..Len(b) : b[j].rangeParseConfidence >= 2
           /\ \A j \in 1..Len(b) - 1 : b[j].range.low < b[j + 1].range.low

\* C2 amended: every bucket family has at least 2 members, each of adjusted
\* confidence >= 2, in non-decreasing order of range.low; num_outcomes is the
\* number of members.
C2_NonDecreasing ==
  Built =>
    \A i \in 1..Len(families) :
      IsBucket(families[i]) =>
        LET b == families[i].buckets
        IN /\ Len(b) >= 2
           /\ families[i].num_outcomes = Len(b)
           /\ \A j \in 1..Len(b) : b[j].rangeParseConfidence >= 2
           /\ \A j \in 1..Len(b) - 1 : b[j].range.low <= b[j + 1].range.low

\* a bucket family of two members with the same range.low, built from a batch
\* that also holds a market whose confidence stays below 2
C2_Witness ==
  /\ sphase = "built"
  /\ \E i \in 1..Len(families) :
       LET b == families[i].buckets
       IN /\ IsBucket(families[i])
          /\ Len(b) = 2
          /\ b[1].range.low = b[2].range.low
  /\ \E k \in 1..Len(markets) :
       parseRangeWithConfidence(markets[k].title).ok
       /\ parseRangeWithConfidence(markets[k].title).confidence = 0

InEmittedBucket(id) ==
  \E i \in 1..Len(families) :
    IsBucket(families[i]) /\ \E j \in 1..Len(families[i].buckets) : families[i].buckets[j].marketId = id

\* the families whose family_id is "market:" + id
OwnFamilies(id) ==
  {i \in 1..Len(families) : families[i].family_id = <<"m", "a", "r", "k", "e", "t", ":">> \o id}

\* C12: every market of the batch whose marketId is not that of a member of an
\* emitted bucket family has exactly one family "market:" + marketId: a multi
\* family with the full outcome/price list when it has 3 or more outcomes, else a
\* single family with its yes_price, liquidity and volume.
C12_RestGetOneFamily ==
  Built =>
    \A k \in 1..Len(markets) :
      LET mk == markets[k]
      IN ~InEmittedBucket(mk.marketId) =>
           /\ Cardinality(OwnFamilies(mk.marketId)) = 1
           /\ \A i \in OwnFamilies(mk.marketId) :
                IF Len(mk.outcomes) >= 3
                THEN /\ families[i].family_type = "multi"
                     /\ Len(families[i].multi) = Len(mk.outcomes)
                     /\ \A j \in 1..Len(mk.outcomes) :
                          /\ families[i].multi[j].name = mk.outcomes[j]
                          /\ families[i].multi[j].price = mk.prices[mk.outcomes[j]]
                ELSE /\ families[i].family_type = "single"
                     /\ families[i].single.marketId = mk.marketId
                     /\ families[i].single.yes_price = mk.yes_price
                     /\ families[i].single.liquidity = mk.liquidity
                     /\ families[i].single.volume = mk.volume

\* a bucket family was emitted and a market of its group, dropped from it for
\* its low confidence, got a single family carrying its liquidity and volume
C12_Witness ==
  /\ sphase = "built"
  /\ \E i \in 1..Len(families) : IsBucket(families[i])
  /\ \E k \in 1..Len(markets) :
       /\ parseRangeWithConfidence(markets[k].title).ok
       /\ ~InEmittedBucket(markets[k].marketId)
       /\ markets[k].liquidity = Num(Thousandths(600))
       /\ markets[k].volume = Num(Thousandths(5))
       /\ \E i \in OwnFamilies(markets[k].marketId) : families[i].family_type = "single"

\* the places of the output that stand for the market id: <<i, j>> for member
\* j of bucket family i, <<i, 0>> for the multi or single family i of the market
Places(id) ==
  {pl \in (1..Len(families)) \X (0..MaxMarkets) :
     IF pl[2] = 0
     THEN ~IsBucket(families[pl[1]]) /\ pl[1] \in OwnFamilies(id)
     ELSE /\ IsBucket(families[pl[1]])
          /\ pl[2] <= Len(families[pl[1]].buckets)
          /\ families[pl[1]].buckets[pl[2]].marketId = id}

\* the members of all bucket families plus the multi and single families
PlaceCount ==
  sum([i \in 1..Len(families) |->
         IF IsBucket(families[i]) THEN Len(families[i].buckets) ELSE 1])

\* C24: for a batch with pairwise distinct marketIds, every market stands at
\* exactly one place of the buildFamilies output (a member of one bucket
\* family, or one multi family, or one single family), and the output has no
\* other place.
C24_EveryMarketOnce ==
  Built =>
    /\ \A k \in 1..Len(markets) : Cardinality(Places(markets[k].marketId)) = 1
    /\ PlaceCount = Len(markets)

\* a batch that gives a bucket family, one member of it a market of three
\* outcomes that is therefore no multi family, and a family outside it
C24_Witness ==
  /\ sphase = "built"
  /\ \A k, l \in 1..Len(markets) : markets[k].marketId = markets[l].marketId => k = l
  /\ \E i \in 1..Len(families) : IsBucket(families[i]) /\ Len(families[i].buckets) >= 2
  /\ \E k \in 1..Len(markets) :
       Len(markets[k].outcomes) >= 3 /\ InEmittedBucket(markets[k].marketId)
  /\ \E i \in 1..Len(families) : ~IsBucket(families[i])

Score(f) == f.opportunity_score

\* C3: the ranker's output is sorted by opportunity_score descending, equal
\* scores by num_outcomes descending, and holds no bucket family with fewer
\* than 6 valid prices.
C3_RankedOrder ==
  sphase = "ranked" =>
    /\ \A i \in 1..Len(ranked) : \A j \in (i + 1)..Len(ranked) :
         /\ Score(ranked[i]).k = "num" /\ Score(ranked[j]).k = "num"
         /\ Score(ranked[i]).v >= Score(ranked[j]).v
         /\ Score(ranked[i]).v = Score(ranked[j]).v =>
              ranked[i].num_outcomes >= ranked[j].num_outcomes
    /\ \A i \in 1..Len(ranked) :
         IsBucket(ranked[i]) => ranked[i].features.validPrices >= 6

\* the ranker moved a family ahead of a bucket family that scoreFamilies
\* listed first, and two families of its output tie on the score with
\* different num_outcomes
C3_Witness ==
  /\ sphase = "ranked"
  /\ Len(ranked) >= 3
  /\ IsBucket(scored[1])
  /\ ~IsBucket(ranked[1])
  /\ \E i \in 2..Len(ranked) : ranked[i] = scored[1]
  /\ \E i, j \in 1..Len(ranked) :
       /\ Score(ranked[i]) = Score(ranked[j])
       /\ ranked[i].num_outcomes # ranked[j].num_outcomes

\* the quality gate of C4, from the features of a scored family
PassesGate(f) ==
  \/ f.family_type \in {"multi", "single"}
  \/ /\ IsBucket(f)
     /\ f.features.validPrices >= 6
     /\ f.features.missingPrices <= 2
     /\ f.features.gapCount <= 2
     /\ f.features.overlapCount = 0
     /\ (f.features.liquidityMax.k = "null" \/ f.features.liquidityMax.v >= Thousandths(500))

\* C4: the ranker keeps exactly the families that pass the gate, each once.
C4_KeepsExactlyGate ==
  sphase = "ranked" =>
    /\ \A i \in 1..Len(scored) :
         PassesGate(scored[i]) <=> \E j \in 1..Len(ranked) : ranked[j] = scored[i]
    /\ Len(ranked) = Cardinality({i \in 1..Len(scored) : PassesGate(scored[i])})

\* the ranker kept a bucket family without any liquidity data
C4_Witness ==
  /\ sphase = "ranked"
  /\ \E j \in 1..Len(ranked) :
       /\ IsBucket(ranked[j])
       /\ ranked[j].features.liquidityMax.k = "null"
       /\ ranked[j].features.missingPrices = 2
       /\ ranked[j].features.gapCount = 1

\* the batch of the scenario: 8 binary markets "X 0-1%" .. "X 7-8%", each with
\* yes_price 0.12 and nothing else
IsScenario ==
  /\ Len(markets) = 8
  /\ \A i \in 1..Len(markets) :
       /\ markets[i].title = LadderTitle(i - 1, i)
       /\ Len(markets[i].outcomes) = 2
       /\ markets[i].yes_price = Num(120)
       /\ markets[i].liquidity = Absent
       /\ markets[i].volume = Absent

\* C5: the scenario batch yields exactly one bucket family, of 8 members, with
\* overround 0.96, no gap, no overlap, a positive underround edge and a
\* positive opportunity_score.
C5_Scenario ==
  WasScored /\ IsScenario =>
    /\ Cardinality({i \in 1..Len(scored) : IsBucket(scored[i])}) = 1
    /\ \A i \in 1..Len(scored) :
         IsBucket(scored[i]) =>
           /\ Len(scored[i].buckets) = 8
           /\ scored[i].features.overround = Num(960)
           /\ scored[i].features.gapCount = 0
           /\ scored[i].features.overlapCount = 0
           /\ 1000 - scored[i].features.overround.v > 0
           /\ Score(scored[i]).k = "num"
           /\ Score(scored[i]).v > 0

C5_Witness == sphase = "scored" /\ IsScenario

\* the terms of a scored bucket family's score, in millionths
SpikeTerm(f) == IF f.features.maxSpike.k = "num" THEN f.features.maxSpike.v ELSE 0

UnderroundEdge(f) ==
  IF /\ f.features.overround.k = "num"
     /\ f.features.gapCount = 0 /\ f.features.overlapCount = 0 /\ Len(f.buckets) >= 6
     /\ f.features.overround.v < 1000
  THEN Micro(1) - 1000 * f.features.overround.v ELSE 0

ClusterCheapness(f) ==
  IF ~f.features.bestCluster.found \/ f.features.bestCluster.z >= 0 THEN 0
  ELSE IF f.features.bestCluster.z <= -Micro(2) THEN Micro(1)
  ELSE (-f.features.bestCluster.z) \div 2

LiquidityTerm(f) == liquidityScore(f.features.liquidityMax)

Penalty(f) ==
  (IF \E i \in 1..Len(f.buckets) : ~isValidProb(f.buckets[i].yes_price) THEN 100000 ELSE 0)
  + (IF f.features.gapCount > 0 THEN 150000 ELSE 0)
  + (IF f.features.overlapCount > 0 THEN 250000 ELSE 0)

RawScore(f) ==
  (3 * SpikeTerm(f) + 3 * UnderroundEdge(f) + 3 * ClusterCheapness(f) + LiquidityTerm(f).v) \div 10

\* C17: a bucket family's opportunity_score is 0.30*maxSpike + 0.30*underroundEdge
\* + 0.30*clusterCheapness + 0.10*liquidityScore - penalty clamped to [0,1], with
\* underroundEdge = max(0, 1 - overround) only when overround is defined and the
\* family has no gap, no overlap and at least 6 buckets, and the penalty the sum
\* of 0.10 (a price not valid), 0.15 (gaps) and 0.25 (overlaps). The families
\* whose liquidity term is not a number are those of C1.
C17_ScoreFormula ==
  WasScored =>
    \A i \in 1..Len(scored) :
      IsBucket(scored[i]) /\ LiquidityTerm(scored[i]).k = "num" =>
        Let(RawScore(scored[i]) - Penalty(scored[i]), LAMBDA x :
          Score(scored[i]) = Num(IF x < 0 THEN 0 ELSE IF x > Micro(1) THEN Micro(1) ELSE x))

\* a bucket family with two penalties applied together and a positive score
C17_Witness ==
  /\ sphase = "scored"
  /\ \E i \in 1..Len(scored) :
       /\ IsBucket(scored[i])
       /\ Penalty(scored[i]) = 250000 /\ scored[i].features.gapCount > 0
       /\ Score(scored[i]).k = "num" /\ Score(scored[i]).v > 0

\* C18: the reasons of a scored bucket family have an entry for every term that
\* contributes a nonzero amount to the score (spike, underround edge, cluster
\* cheapness, liquidity) and for every assessed quality issue (a price not
\* valid, gaps, overlaps).
C18_ReasonsComplete ==
  WasScored =>
    \A i \in 1..Len(scored) :
      IsBucket(scored[i]) =>
        /\ SpikeTerm(scored[i]) > 0 => HasReason(scored[i], "spike")
        /\ UnderroundEdge(scored[i]) > 0 => HasReason(scored[i], "underround")
        /\ ClusterCheapness(scored[i]) > 0 => HasReason(scored[i], "bestCluster cost")
        /\ LiquidityTerm(scored[i]).k = "num" /\ LiquidityTerm(scored[i]).v > 0 =>
             HasReason(scored[i], "liquidity")
        /\ scored[i].features.missingPrices > 0 => HasReason(scored[i], "missingPrices")
        /\ scored[i].features.gapCount > 0 => HasReason(scored[i], "gaps")
        /\ scored[i].features.overlapCount > 0 => HasReason(scored[i], "overlaps")

\* the window of the run of k buckets starting at s: 2 more buckets on each
\* side, clipped to the family
Window(f, s, k) ==
  (IF s - 2 < 1 THEN 1 ELSE s - 2)..(IF s + k + 1 > Len(f.buckets) THEN Len(f.buckets) ELSE s + k + 1)

\* the candidate runs <<s, k>> of a family: 2, 3 or 4 contiguous buckets with
\* every price of the window (which contains the run) valid
Candidates(f) ==
  {c \in (1..Len(f.buckets)) \X {2, 3, 4} :
     /\ c[1] + c[2] - 1 <= Len(f.buckets)
     /\ \A j \in Window(f, c[1], c[2]) : isValidProb(f.buckets[j].yes_price)}

RunCost(f, c) == sum([j \in 1..c[2] |-> f.buckets[c[1] + j - 1].yes_price.v])

\* cost / windowSum, in thousandths
RunRatio(f, c) ==
  (RunCost(f, c) * 1000)
    \div sum([j \in 1..Cardinality(Window(f, c[1], c[2])) |->
               f.buckets[SetMin(Window(f, c[1], c[2])) + j - 1].yes_price.v])

\* the best cluster is the candidate c
IsRun(f, c) ==
  /\ f.features.bestCluster.labels = [j \in 1..c[2] |-> f.buckets[c[1] + j - 1].label]
  /\ f.features.bestCluster.cost = RunCost(f, c)
  /\ f.features.bestCluster.ratio = RunRatio(f, c)

\* C19: bestCluster is null iff the family has no candidate; otherwise it is a
\* candidate of minimal ratio (minimal z), its z is <= 0, and z is 0 when all
\* candidates have the same ratio (standard deviation 0).
C19_BestCluster ==
  WasScored =>
    \A i \in 1..Len(scored) :
      IsBucket(scored[i]) =>
        Let(Candidates(scored[i]), LAMBDA cs :
          /\ scored[i].features.bestCluster.found <=> cs # {}
          /\ cs # {} =>
               /\ \E c \in cs :
                    /\ IsRun(scored[i], c)
                    /\ \A d \in cs : RunRatio(scored[i], c) <= RunRatio(scored[i], d)
               /\ scored[i].features.bestCluster.z <= 0
               /\ (\A c, d \in cs : RunRatio(scored[i], c) = RunRatio(scored[i], d)) =>
                    scored[i].features.bestCluster.z = 0)

\* a bucket family with a run that is not a candidate and a best cluster
\* cheaper than the mean
C19_Witness ==
  /\ sphase = "scored"
  /\ \E i \in 1..Len(scored) :
       /\ IsBucket(scored[i])
       /\ scored[i].features.bestCluster.found
       /\ scored[i].features.bestCluster.z < 0
       /\ scored[i].features.missingPrices > 0

Entries == SelectSeq(pevents, LAMBDA e : e.type = "ENTRY")

\* the families of the file with the entry's family_id
FamiliesOfEntry(e) == {i \in 1..Len(pfamilies) : pfamilies[i].family_id = e.family_id}

\* the entry is for the member whose label is the first label of the best cluster
OnBestCluster(f, e) ==
  /\ f.features.bestCluster.found
  /\ \E j \in 1..Len(f.buckets) :
       /\ f.buckets[j].marketId = e.marketId
       /\ f.buckets[j].label = f.features.bestCluster.labels[1]

\* C16, as claimed: every ENTRY is for "Yes" of, for a bucket family, the
\* member whose label is the first label of the family's best cluster and, for
\* a single family, the family's own market; never for a multi family.
C16_EntryOnBestCluster ==
  pphase = "traded" => \A n \in 1..Len(Entries) :
    /\ Entries[n].outcome = YesOutcome
    /\ \E i \in FamiliesOfEntry(Entries[n]) :
         \/ pfamilies[i].family_type = "bucket" /\ OnBestCluster(pfamilies[i], Entries[n])
         \/ pfamilies[i].family_type = "single"
              /\ pfamilies[i].single.marketId = Entries[n].marketId

\* C16, amended: every ENTRY is for "Yes" of a family of positive score: for a
\* bucket family, the member whose label is the first label of the family's
\* best cluster or, when the family has no best cluster, its first bucket; for
\* a single family, the family's own market; never for a multi family.
C16_EntryTargets ==
  pphase = "traded" => \A n \in 1..Len(Entries) :
    /\ Entries[n].outcome = YesOutcome
    /\ \E i \in FamiliesOfEntry(Entries[n]) :
         /\ pfamilies[i].opportunity_score.k = "num" /\ pfamilies[i].opportunity_score.v > 0
         /\ \/ pfamilies[i].family_type = "bucket" /\ OnBestCluster(pfamilies[i], Entries[n])
            \/ /\ pfamilies[i].family_type = "bucket"
               /\ ~pfamilies[i].features.bestCluster.found
               /\ pfamilies[i].buckets[1].marketId = Entries[n].marketId
            \/ pfamilies[i].family_type = "single"
                 /\ pfamilies[i].single.marketId = Entries[n].marketId

\* a run that entered a bucket family on a member of its best cluster that is
\* not its first bucket, while a multi family of positive score was passed over
C16_Witness ==
  /\ pphase = "traded"
  /\ \E n \in 1..Len(Entries) : \E i \in FamiliesOfEntry(Entries[n]) :
       /\ pfamilies[i].family_type = "bucket"
       /\ OnBestCluster(pfamilies[i], Entries[n])
       /\ pfamilies[i].buckets[1].marketId # Entries[n].marketId
       /\ \E j \in 1..Len(pfamilies) :
            /\ pfamilies[j].family_type = "multi"
            /\ pfamilies[j].opportunity_score.v > 0
            /\ \A m \in 1..Len(Entries) : Entries[m].family_id # pfamilies[j].family_id

\* the net asset value the run's entry selection computed: entries move money
\* from cash to exposure and leave it unchanged
Nav == pstate.bankrollCashUsd + exposureUsd(pstate.positions)

\* C27: after every run the exposure is at most maxExposurePct of the NAV of
\* the run's entry selection.
C27_ExposureWithinCap ==
  pphase = "traded" => exposureUsd(pstate.positions) * 10 <= maxExposureUsd(Nav)

\* a step that is one paper-trading run: pstate is the state the run loads,
\* pstate' the state it saves, pevents' the events it appends
RunStep == pphase = "scanned" /\ pphase' = "traded"

\* the positions the run starts with
StartIds == {pstate.positions[i].id : i \in 1..Len(pstate.positions)}

StartPos(id) == pstate.positions[CHOOSE i \in 1..Len(pstate.positions) : pstate.positions[i].id = id]

\* the position has been open for maxHoldHours when the run starts
HeldLong(id) == pnow - StartPos(id).entryTs >= maxHoldHours

\* the snapshot of the run has a price for the position
Priced(id) == getOutcomePrice(psnap, StartPos(id).marketId, StartPos(id).outcome).k # "null"

\* the EXIT events of the run for the position
ExitsOf(id) ==
  {n \in 1..Len(pevents') : pevents'[n].type = "EXIT" /\ pevents'[n].positionId = id}

StillOpen(id) == \E j \in 1..Len(pstate'.positions) : pstate'.positions[j].id = id

\* the reason the exit rules give for a move of the price
ReasonFor(id) ==
  Let(getOutcomePrice(psnap, StartPos(id).marketId, StartPos(id).outcome).v
        - StartPos(id).entryPrice, LAMBDA move :
    IF move >= takeProfitMove THEN "TP" ELSE IF move <= stopLossMove THEN "SL" ELSE "MAX_HOLD")

\* C28 as stated: every position open for maxHoldHours at the start of a run is
\* closed by the run with one EXIT event and is no longer open.
C28_EveryHeldPositionCloses ==
  [][RunStep => \A id \in StartIds :
                  HeldLong(id) => Cardinality(ExitsOf(id)) = 1 /\ ~StillOpen(id)]_vars

\* C28: a position open for maxHoldHours at the start of a run is closed by the
\* run with one EXIT event (reason MAX_HOLD unless take-profit or stop-loss
\* applies) when the run's snapshot has a price for it, and stays open without
\* an EXIT event when the snapshot has none.
C28_HeldPricedPositionCloses ==
  [][RunStep => \A id \in StartIds :
                  HeldLong(id) =>
                    IF Priced(id)
                    THEN /\ Cardinality(ExitsOf(id)) = 1
                         /\ \A n \in ExitsOf(id) :
                              /\ pevents'[n].reason = ReasonFor(id)
                              /\ pevents'[n].holdHours >= maxHoldHours
                         /\ ~StillOpen(id)
                    ELSE ExitsOf(id) = {} /\ StillOpen(id)]_vars

\* a run has closed one position for its age and has kept another of that age,
\* which has no price in the snapshot
C28_Witness ==
  /\ pphase = "traded"
  /\ \E n \in 1..Len(pevents) :
       /\ pevents[n].type = "EXIT"
       /\ pevents[n].reason = "MAX_HOLD"
       /\ pevents[n].holdHours >= maxHoldHours
  /\ \E j \in 1..Len(pstate.positions) :
       /\ pnow - pstate.positions[j].entryTs >= maxHoldHours
       /\ getOutcomePrice(psnap, pstate.positions[j].marketId, pstate.positions[j].outcome).k = "null"

\* the lines of paper_trades.jsonl that are ENTRY events
EntryLines == {n \in 1..Len(ptrades) : ptrades[n].type = "ENTRY"}

\* the times at which a run appended events
RunTimes == {ptrades[n].ts : n \in 1..Len(ptrades)}

\* C29: two ENTRY events of one family are at least cooldownHours apart, so a
\* run never enters a family twice, and a run appends at most
\* maxNewTradesPerScan ENTRY events.
C29_CooldownBetweenEntries ==
  /\ \A m \in EntryLines, n \in EntryLines :
       m < n /\ ptrades[m].family_id = ptrades[n].family_id
         => ptrades[n].ts - ptrades[m].ts >= cooldownHours
  /\ \A t \in RunTimes :
       Cardinality({n \in EntryLines : ptrades[n].ts = t}) <= maxNewTradesPerScan

\* a family entered twice exactly cooldownHours apart, and a later run, less
\* than cooldownHours after the second entry, that entered nothing although
\* the family was a candidate with a price
C29_Witness ==
  /\ pphase = "traded"
  /\ \E m \in EntryLines, n \in EntryLines :
       /\ ptrades[m].family_id = ptrades[n].family_id
       /\ ptrades[n].ts - ptrades[m].ts = cooldownHours
       /\ pnow > ptrades[n].ts
       /\ pnow - ptrades[n].ts < cooldownHours
       /\ \E i \in 1..Len(pfamilies) :
            /\ pfamilies[i].family_id = ptrades[n].family_id
            /\ pfamilies[i].opportunity_score.v > 0
            /\ pickTradeTarget(pfamilies[i]).ok
            /\ getOutcomePrice(psnap, pickTradeTarget(pfamilies[i]).marketId, YesOutcome).k = "num"
  /\ \A n \in EntryLines : ptrades[n].ts # pnow
  /\ \E t \in RunTimes : Cardinality({n \in EntryLines : ptrades[n].ts = t}) = maxNewTradesPerScan

\* the events of one type that the run appends, in order
RunEvents(type) == SelectSeq(pevents', LAMBDA e : e.type = type)

Usd(events) == sum([i \in 1..Len(events) |-> events[i].usd])

\* the cash the run starts with: that of the state file, or the default bankroll
CashBefore == loadPaperState(pstate).bankrollCashUsd

\* the ids of the positions the run keeps, in their order
RetainedIds ==
  Let(SelectSeq(pstate.positions, LAMBDA pos : ExitsOf(pos.id) = {}), LAMBDA kept :
    Tuple([i \in 1..Len(kept) |-> kept[i].id]))

\* C30: in every run each position open at its start is afterwards still open
\* or closed by exactly one EXIT event, never both and never neither; the
\* positions after the run are the retained ones followed by those of the run's
\* ENTRY events; the cash after is the cash before plus the EXIT usd minus the
\* ENTRY usd; every ENTRY usd is at most the cash at its moment, and the cash is
\* never negative.
C30_RunAccounting ==
  [][RunStep =>
      Let(RunEvents("EXIT"), LAMBDA exits :
      Let(RunEvents("ENTRY"), LAMBDA entries :
        /\ \A id \in StartIds :
             \/ Cardinality(ExitsOf(id)) = 1 /\ ~StillOpen(id)
             \/ ExitsOf(id) = {} /\ StillOpen(id)
        /\ \A n \in 1..Len(exits) : exits[n].positionId \in StartIds
        /\ Tuple([j \in 1..Len(pstate'.positions) |-> pstate'.positions[j].id])
             = RetainedIds \o Tuple([n \in 1..Len(entries) |-> entries[n].positionId])
        /\ \A n \in 1..Len(entries) :
             Let(pstate'.positions[Len(RetainedIds) + n], LAMBDA pos :
               /\ pos.entryUsd = entries[n].usd
               /\ pos.marketId = entries[n].marketId
               /\ pos.entryTs = pnow
               /\ entries[n].usd > 0
               /\ entries[n].usd <= CashBefore + Usd(exits) - Usd(SubSeq(entries, 1, n - 1)))
        /\ pstate'.bankrollCashUsd = CashBefore + Usd(exits) - Usd(entries)
        /\ pstate'.bankrollCashUsd >= 0))]_vars

\* a run has kept one position, closed another and entered a new one
C30_Witness ==
  /\ pphase = "traded"
  /\ \E n \in 1..Len(pevents) : pevents[n].type = "EXIT" /\ pevents[n].usd # maxTradeUsd
  /\ \E n \in 1..Len(pevents) : pevents[n].type = "ENTRY"
  /\ \E j \in 1..Len(pstate.positions) :
       /\ pstate.positions[j].entryTs < pnow
       /\ pstate.positions[j].lastMarkTs.k = "null"
  /\ \E j \in 1..Len(pstate.positions) : pstate.positions[j].entryTs = pnow

\* a run has entered a position with all the cash it had, less than maxTradeUsd
LowCashEntry ==
  /\ pphase = "traded"
  /\ pstate.bankrollCashUsd = 0
  /\ \E n \in 1..Len(pevents) : pevents[n].type = "ENTRY" /\ pevents[n].usd < maxTradeUsd

\* ------------------------------------------------- fetchMarkets: claims
Returned == fphase = "done"

\* a cap is in force: the variable holds a number
Capped == gammaPageLimit.k = "num" \/ maxMarkets.k = "num"

\* every request but the last was answered with a full page
OnlyLastShort == \A i \in 1..(Len(requests) - 1) : requests[i].len >= gammaLimit

FetchSafe ==
  /\ (fenv.GAMMA_PAGE_LIMIT.k = "num") = (gammaPageLimit.k = "num")
  /\ (fenv.MAX_MARKETS.k = "num") = (maxMarkets.k = "num")
  /\ gammaPageLimit.k = "num" => pagesFetched <= gammaPageLimit.v
  /\ maxMarkets.k = "num" => pagesFetched <= maxMarkets.v
  /\ Returned /\ maxMarkets.k = "num" => Len(rawMarkets) <= maxMarkets.v
  /\ Returned => rawFile = rawMarkets
  /\ OnlyLastShort
  /\ pagesFetched = Len(requests)
  /\ fphase = "loop" /\ Capped => pagesFetched < MaxPages

\* C22 as stated, for the market cap: whenever MAX_MARKETS is set to a number,
\* fetchMarkets returns at most that many raw markets.
C22_AtMostTheValueSet ==
  Returned /\ fenv.MAX_MARKETS.k = "num" => Len(rawMarkets) * 10 <= fenv.MAX_MARKETS.v

\* C22: with the caps as fetchMarkets reads them (truncated, held within their
\* bounds, a text that is no number counting as unset), it returns at most
\* maxMarkets markets, requests at most gammaPageLimit pages and no page after a
\* page shorter than gammaLimit, and a call with a cap in force ends.
C22_EffectiveCaps ==
  /\ []FetchSafe
  /\ [](fphase = "loop" /\ Capped => <>(fphase # "loop"))

C22_Witness ==
  /\ Returned
  /\ stopReason[1] = "trimmedToMaxMarkets"
  /\ gammaPageLimit = Null
  /\ pagesFetched >= 2
  /\ Len(rawMarkets) = maxMarkets.v

\* -------------------------------------------------- file logger: claims
Appending == {k \in 1..Len(chain) : chain[k] = "appending"}

\* C23: whatever the calls and however they interleave with the appends, the
\* log file holds the lines of the first write calls in call order, at most
\* one append runs at a time, and a flush is fulfilled only when every line
\* requested before it is in the file.
C23_AppendsInCallOrder ==
  /\ Len(logFile) <= Len(lines)
  /\ logFile = SubSeq(lines, 1, Len(logFile))
  /\ \A k \in 1..Len(chain) : (chain[k] = "fulfilled") = (k <= Len(logFile))
  /\ Cardinality(Appending) <= 1
  /\ \A j \in 1..Len(flushes) :
       flushes[j].state = "fulfilled" => Len(logFile) >= flushes[j].upto

\* three calls issued without awaiting: one append runs while later lines
\* wait, and a flush behind two lines has been fulfilled
C23_Witness ==
  /\ Len(lines) = MaxLines
  /\ \E k \in 1..Len(chain) : chain[k] = "appending" /\ k < Len(chain) /\ chain[k + 1] = "pending"
  /\ \E j \in 1..Len(flushes) : flushes[j].state = "fulfilled" /\ flushes[j].upto >= 2

\* ----------------------------------------------------- scan run: claims
Fatal == pc = "exited" /\ exitCode # 0

\* C21: a run that ends fatally (exit code 1, 2 or 3) has written neither
\* the heartbeat, nor the families artifact, nor evaluation-log rows.
C21_FatalRunWritesNothing ==
  Fatal =>
    /\ outFiles.last_scan # scanNo
    /\ outFiles.families # scanNo
    /\ \A i \in 1..Len(rowsFile) : rowsFile[i] # scanNo

====
